---- MODULE Spec2Model ----
(***************************************************************************)
(* A model of the emulator control-and-telemetry bridge of eden-fft-agent: *)
(*   - CemuhookServer (cemuhook_server.py): the UDP gamepad server, its    *)
(*     background loop thread and the caller thread driving it;            *)
(*   - GDBMemoryReader (memory_reader.py): the debug-stub client.          *)
(*                                                                         *)
(* Threads are asynchronous.  time.sleep(d) and join(timeout) only bound a *)
(* wait from below, so a sleeping thread resumes at some later point and   *)
(* the server model keeps no clock: the requested duration is kept in the  *)
(* state (cdur) for the statements that speak about it.                    *)
(* The reader model counts the seconds a recv call has waited (rwait) and   *)
(* the seconds since the command was sent (rtotal): the socket timeout is   *)
(* the one place where the code itself reads a clock.                      *)
(***************************************************************************)
EXTENDS Integers, Sequences, FiniteSets, TLC

VARIABLES
    \* ---- CemuhookServer instance and its environment
    otherBound,      \* another server instance holds the same host/port
    sock,            \* "none" (no instance) | "bound" | "closed"
    raised,          \* exception surfaced to the caller by its last call
    running,         \* self.running
    thread,          \* self._thread: "none" | "alive" | "exited" | "crashed"
    lpc,             \* position of the loop thread inside _loop
    client_addr,     \* self.client_addr
    buttons,         \* self.state.buttons, as the set of bits that are set
    packet_counter,  \* self.state.packet_counter, two base-65536 limbs
    rx,              \* what recvfrom returned in the latest step of the loop
    wire,            \* the sendto calls of the latest step of the loop
    built,           \* snapshots built so far in this run
    \* ---- the caller thread
    cpc,             \* "idle" | "hold" | "mvloop" | "gap" | "join" | "ret"
    cop,             \* the operation in progress
    cbutton,         \* press_button's button
    cdur,            \* the duration of the caller's current sleep, in ms
    mvdx, mvdy,      \* move_cursor's arguments
    mvrx, mvry,      \* pulses still to do on each axis
    pulselog,        \* set/clear events of the operation in progress
    observed,        \* "n/a" | "none" | "seen": a snapshot sent during the hold
    \* ---- GDBMemoryReader instance, its peer and its caller
    rsocket,         \* self._socket: "none" | "socket"
    connected,       \* self._connected
    peer,            \* the stub's end: "down" | "up" | "closed"
    rpc,             \* "idle" | "recv" | "ret": the caller inside read_memory
    rsize,           \* read_memory's size
    response,        \* the bytes _send_packet has received in this call
    nchunks,         \* recv calls that returned data in this call
    rwait,           \* seconds the current recv call has waited
    rtotal,          \* seconds since sendall returned
    payload,         \* what _send_packet returned
    rhow,            \* the path by which _send_packet returned
    result,          \* what read_memory returned
    rframes,         \* the sendall calls of this read_memory call
    late,            \* the address of the command whose response is still
                     \* unread in the stream of the socket, NoneInt if none
    \* ---- the latest read_unit_stats / read_game_state call
    sop,             \* the operation
    sarg,            \* its unit_id
    senv,            \* what its read_memory calls met: failures and memory
    ustats,          \* what read_unit_stats returned
    gstate,          \* what read_game_state returned
    scalls,          \* its read_memory calls, in order
    sattempts,       \* its connect() calls
    sraised,         \* the exception it raised, "none" if it returned
    \* ---- PowerManager
    power_ups_used,  \* self.power_ups_used
    penabled,        \* self.enabled
    pret,            \* what the latest power-up returned: "True" | "False" | "none",
                     \* what emergency_assist returned: "0", "1", ...
    pwrites,         \* its write_memory calls
    \* ---- one application of the packet encoders and of the decoder
    fpc,             \* "idle" | "built" | "parsed" | "pad"
    fin,             \* the arguments
    fpacket,         \* the bytes built
    fparsed,         \* what _parse_request returned
    ferr,            \* the exception the build raised, "none" if none
    \* ---- one call of LLMClient.chat or chat_with_images
    llm_pc,          \* "idle" | "post" | "sleep" | "ret"
    llm_fn,          \* "chat" | "chat_with_images", "none" when idle
    llm_caller,      \* "direct" | "detect_phase"
    attempt,         \* the loop variable of the retry loop
    llm_log,         \* what each client.post of the call met, in order
    llm_slept,       \* the arguments of its time.sleep calls, in seconds
    llm_ret,         \* how the call ended: a string, None or an exception
    llm_phase        \* what detect_phase returned, "n/a" outside it

server_vars == <<otherBound, sock, raised, running, thread, lpc, client_addr,
                 buttons, packet_counter, rx, wire, built>>
caller_vars == <<cpc, cop, cbutton, cdur, mvdx, mvdy, mvrx, mvry, pulselog,
                 observed>>
reader_vars == <<rsocket, connected, peer, rpc, rsize, response, nchunks, rwait,
                 rtotal, payload, rhow, result, rframes, late>>
stats_vars == <<sop, sarg, senv, ustats, gstate, scalls, sattempts, sraised,
                power_ups_used, penabled, pret, pwrites>>
framing_vars == <<fpc, fin, fpacket, fparsed, ferr>>
llm_vars == <<llm_pc, llm_fn, llm_caller, attempt, llm_log, llm_slept, llm_ret,
              llm_phase>>
vars == <<server_vars, caller_vars, reader_vars, stats_vars, framing_vars,
          llm_vars>>

None == "None"

\* Python's None where the other values are integers
NoneInt == 0 - 1

\* ------------------------------------------------------------------ bounds
MaxPackets == 2
MaxDelta == 1
MaxChunks == 3
MaxTotal == 3
MaxFail == 2
MaxPayload == 2

\* ------------------------------------------------------- protocol constants
SERVER_MAGIC == 1398100804
CLIENT_MAGIC == 1129665348
PROTOCOL_VERSION == 1001
TYPE_VERSION == 1048576
TYPE_PORTINFO == 1048577
TYPE_PADDATA == 1048578
HEADER_LEN == 20
PAD_PAYLOAD_LEN == 80
Limb == 256 * 256

BUTTON_UP == 16
BUTTON_RIGHT == 32
BUTTON_DOWN == 64
BUTTON_LEFT == 128
BUTTON_CIRCLE == 8192

\* sleeps, in milliseconds
LoopSleepMs == 16
HoldDefaultMs == 250
PulseGapMs == 50
JoinTimeoutMs == 1000

\* GDBMemoryReader's socket timeout, in seconds
RecvTimeout == 2

\* PowerManager.max_power_ups_per_battle
max_power_ups_per_battle == 3

\* the Address Map of memory_reader.py
UNIT_BASE_ADDR == 17069056
UNIT_OFFSET == 512
UNIT_COUNT == 5
OFFSETS ==
    [brave |-> 122, faith |-> 124, hp |-> 128, mp |-> 132, attack_power |-> 136,
     move_count |-> 145, max_moves |-> 146, status_shield_1 |-> 178,
     status_shield_2 |-> 180, max_hp |-> 204, max_mp |-> 208, speed |-> 210,
     attack |-> 214, attack2 |-> 216, skill_poaching |-> 234,
     skill_xp_hp_move |-> 236, skill_fly |-> 238, magic_ready |-> 477]

\* the unit ids callers pass, two of them outside the Address Map
UnitIds == 0..(UNIT_COUNT + 1)

Buttons == {BUTTON_UP, BUTTON_RIGHT, BUTTON_DOWN, BUTTON_LEFT, BUTTON_CIRCLE}
Durations == {0, LoopSleepMs, HoldDefaultMs}
Addrs == {"peerA", "peerB"}

\* A datagram as recvfrom returns it: its length, the two header fields the
\* server reads (meaningful only when the header is complete) and its sender.
OtherType == TYPE_PADDATA + 1
Datagrams ==
    {[len |-> HEADER_LEN, magic |-> CLIENT_MAGIC, type |-> t, from |-> a] :
        t \in {TYPE_VERSION, TYPE_PORTINFO, TYPE_PADDATA, OtherType}, a \in Addrs}
    \cup {[len |-> HEADER_LEN, magic |-> SERVER_MAGIC, type |-> TYPE_PADDATA, from |-> a] :
        a \in Addrs}
    \cup {[len |-> HEADER_LEN - 1, magic |-> CLIENT_MAGIC, type |-> TYPE_PADDATA, from |-> a] :
        a \in Addrs}

NoDatagram == [len |-> 0, magic |-> 0, type |-> 0, from |-> None]

\* ------------------------------------------------------------ pure helpers
\* the decoder without its test of the magic
parse_request_AnyMagic(data) ==
    IF data.len < HEADER_LEN THEN NoneInt ELSE data.type

parse_request(data) ==
    IF data.len < HEADER_LEN THEN NoneInt
    ELSE IF data.magic # CLIENT_MAGIC THEN NoneInt
    ELSE data.type

CounterInc(c) ==
    IF c.lo + 1 = Limb THEN [hi |-> c.hi + 1, lo |-> 0]
    ELSE [hi |-> c.hi, lo |-> c.lo + 1]

\* struct.pack('<I', v) accepts 0 <= v <= 2^32 - 1 and raises struct.error otherwise
PackU32Ok(c) == c.hi < Limb

\* the set of the bit also setting the circle button
SetBit_AndCircle(bits, b) == bits \cup {b, BUTTON_CIRCLE}

SetBit(bits, b) == bits \cup {b}

\* press_button forgetting to clear the bit
ClearBit_Keep(bits, b) == bits

ClearBit(bits, b) == bits \ {b}

NoCounter == [hi |-> NoneInt, lo |-> NoneInt]

\* one sendto call: the packet and whether the call returned normally
Packet(type, to, ok) ==
    [type |-> type, to |-> to, buttons |-> {}, counter |-> NoCounter, ok |-> ok]

PadPacket(to, ok, bits, counter) ==
    [type |-> TYPE_PADDATA, to |-> to, buttons |-> bits, counter |-> counter, ok |-> ok]

DpadMapping(direction) ==
    CASE direction = "up" -> BUTTON_UP
      [] direction = "down" -> BUTTON_DOWN
      [] direction = "left" -> BUTTON_LEFT
      [] direction = "right" -> BUTTON_RIGHT
      [] OTHER -> NoneInt

\* the horizontal direction with its sign test inverted
DirX_Inverted(dx) == IF dx < 0 THEN "right" ELSE "left"

DirX(dx) == IF dx > 0 THEN "right" ELSE "left"

DirY(dy) == IF dy > 0 THEN "down" ELSE "up"

Abs(n) == IF n < 0 THEN -n ELSE n

\* -------------------------------------------------------------------- Init
Init ==
    /\ otherBound \in BOOLEAN
    /\ sock = "none"
    /\ raised = "none"
    /\ running = FALSE
    /\ thread = "none"
    /\ lpc = "check"
    /\ client_addr = None
    /\ buttons = {}
    /\ packet_counter = [hi |-> 0, lo |-> 0]
    /\ rx = NoDatagram
    /\ wire = <<>>
    /\ built = 0
    /\ cpc = "idle"
    /\ cop = "none"
    /\ cbutton = NoneInt
    /\ cdur = 0
    /\ mvdx = 0
    /\ mvdy = 0
    /\ mvrx = 0
    /\ mvry = 0
    /\ pulselog = <<>>
    /\ observed = "n/a"
    /\ rsocket = "none"
    /\ connected = FALSE
    /\ peer = "down"
    /\ rpc = "idle"
    /\ rsize = 0
    /\ response = <<>>
    /\ nchunks = 0
    /\ rwait = 0
    /\ rtotal = 0
    /\ payload = [none |-> TRUE, str |-> <<>>]
    /\ rhow = "n/a"
    /\ result = [hi |-> NoneInt, lo |-> NoneInt]
    /\ rframes = <<>>
    /\ late = NoneInt
    /\ sop = "none"
    /\ sarg = 0
    /\ senv = [fails |-> {}, image |-> <<>>]
    /\ ustats = [unit_id |-> NoneInt]
    /\ gstate = [connected |-> FALSE, error |-> None, units |-> <<>>]
    /\ scalls = <<>>
    /\ sattempts = 0
    /\ sraised = "none"
    /\ power_ups_used = 0
    /\ penabled = TRUE
    /\ pret = "none"
    /\ llm_pc = "idle"
    /\ llm_fn = "none"
    /\ llm_caller = "direct"
    /\ attempt = 0
    /\ llm_log = <<>>
    /\ llm_slept = <<>>
    /\ llm_ret = [kind |-> "none", content |-> <<>>]
    /\ llm_phase = "n/a"
    /\ pwrites = <<>>
    /\ fpc = "idle"
    /\ fin = [kind |-> "none"]
    /\ fpacket = <<>>
    /\ fparsed = NoneInt
    /\ ferr = "none"

\* ------------------------------------------------- CemuhookServer.__init__
\* SO_REUSEADDR is set before bind: whether a second UDP socket may bind an
\* address another socket holds is the platform's choice.
Construct ==
    /\ cpc = "idle"
    /\ sock = "none"
    /\ \E bindOk \in (IF otherBound THEN BOOLEAN ELSE {TRUE}) :
          IF bindOk
          THEN /\ sock' = "bound"
               /\ raised' = "none"
          ELSE /\ sock' = "none"
               /\ raised' = "OSError"
    /\ running' = FALSE
    /\ thread' = "none"
    /\ client_addr' = None
    /\ buttons' = {}
    /\ packet_counter' = [hi |-> 0, lo |-> 0]
    /\ UNCHANGED <<otherBound, lpc, rx, wire, built, caller_vars>>
    /\ UNCHANGED <<reader_vars, stats_vars, framing_vars, llm_vars>>

\* ------------------------------------------------------------------ _loop
\* a snapshot sent while the caller holds a button that the snapshot carries
Observe(sent) ==
    IF /\ observed = "none"
       /\ cpc = "hold"
       /\ \E i \in 1..Len(sent) :
             sent[i].type = TYPE_PADDATA /\ sent[i].ok /\ cbutton \in sent[i].buttons
    THEN "seen"
    ELSE observed

loop_check ==
    /\ thread = "alive"
    /\ lpc = "check"
    /\ IF running
       THEN /\ lpc' = "recv"
            /\ thread' = thread
       ELSE /\ thread' = "exited"
            /\ lpc' = lpc
    /\ wire' = <<>>
    /\ rx' = NoDatagram
    /\ UNCHANGED <<otherBound, sock, raised, running, client_addr, buttons,
                   packet_counter, built, caller_vars>>
    /\ UNCHANGED <<reader_vars, stats_vars, framing_vars, llm_vars>>

\* _handle_requests: recvfrom on a closed socket raises OSError, which only
\* "except BlockingIOError" does not catch: the thread ends.
handle_requests_closed ==
    /\ thread = "alive"
    /\ lpc = "recv"
    /\ sock # "bound"
    /\ thread' = "crashed"
    /\ wire' = <<>>
    /\ rx' = NoDatagram
    /\ UNCHANGED <<otherBound, sock, raised, running, lpc, client_addr, buttons,
                   packet_counter, built, caller_vars>>
    /\ UNCHANGED <<reader_vars, stats_vars, framing_vars, llm_vars>>

\* _handle_requests: nothing to read, BlockingIOError, pass.
handle_requests_empty ==
    /\ thread = "alive"
    /\ lpc = "recv"
    /\ sock = "bound"
    /\ lpc' = "periodic"
    /\ wire' = <<>>
    /\ rx' = NoDatagram
    /\ UNCHANGED <<otherBound, sock, raised, running, thread, client_addr, buttons,
                   packet_counter, built, caller_vars>>
    /\ UNCHANGED <<reader_vars, stats_vars, framing_vars, llm_vars>>

\* The outcome of a sendto in _handle_requests: it returns, raises
\* BlockingIOError (caught, pass) or raises another OSError (not caught).
SendOutcomes == {"ok", "blocking", "oserror"}

AfterHandlerSend(outcome) ==
    IF outcome = "oserror"
    THEN /\ thread' = "crashed"
         /\ lpc' = lpc
    ELSE /\ thread' = thread
         /\ lpc' = "periodic"

\* _handle_requests: recvfrom returns a datagram, whichever the network has
\* delivered by now.
handle_requests ==
    /\ thread = "alive"
    /\ lpc = "recv"
    /\ sock = "bound"
    /\ \E data \in Datagrams :
       LET addr == data.from
           msg_type == parse_request(data)
       IN  /\ rx' = data
           /\ client_addr' = addr
           /\ IF msg_type = TYPE_VERSION \/ msg_type = TYPE_PORTINFO
              THEN \E outcome \in SendOutcomes :
                      /\ wire' = <<Packet(msg_type, addr, outcome = "ok")>>
                      /\ AfterHandlerSend(outcome)
                      /\ UNCHANGED <<packet_counter, built>>
              ELSE IF msg_type = TYPE_PADDATA
              THEN /\ built < MaxPackets
                   /\ packet_counter' = CounterInc(packet_counter)
                   /\ built' = built + 1
                   /\ IF PackU32Ok(packet_counter')
                      THEN \E outcome \in SendOutcomes :
                              /\ wire' = <<PadPacket(addr, outcome = "ok", buttons,
                                                     packet_counter')>>
                              /\ AfterHandlerSend(outcome)
                      ELSE /\ wire' = <<>>
                           /\ AfterHandlerSend("oserror")
              ELSE /\ wire' = <<>>
                   /\ lpc' = "periodic"
                   /\ UNCHANGED <<thread, packet_counter, built>>
    /\ observed' = Observe(wire')
    /\ UNCHANGED <<otherBound, sock, raised, running, buttons,
                   cpc, cop, cbutton, cdur, mvdx, mvdy, mvrx, mvry, pulselog>>
    /\ UNCHANGED <<reader_vars, stats_vars, framing_vars, llm_vars>>

\* the periodic update of _loop: any exception of the build or the send is
\* swallowed.
loop_send ==
    /\ thread = "alive"
    /\ lpc = "periodic"
    /\ IF client_addr # None
       THEN /\ built < MaxPackets
            /\ packet_counter' = CounterInc(packet_counter)
            /\ built' = built + 1
            /\ IF PackU32Ok(packet_counter')
               THEN \E ok \in (IF sock = "bound" THEN BOOLEAN ELSE {FALSE}) :
                       wire' = <<PadPacket(client_addr, ok, buttons, packet_counter')>>
               ELSE wire' = <<>>
       ELSE /\ wire' = <<>>
            /\ UNCHANGED <<packet_counter, built>>
    /\ lpc' = "sleep"
    /\ rx' = NoDatagram
    /\ observed' = Observe(wire')
    /\ UNCHANGED <<otherBound, sock, raised, running, thread, client_addr, buttons,
                   cpc, cop, cbutton, cdur, mvdx, mvdy, mvrx, mvry, pulselog>>
    /\ UNCHANGED <<reader_vars, stats_vars, framing_vars, llm_vars>>

\* 2^32 - 2 iterations of _loop in one step: with a peer recorded and no
\* caller at work, every iteration has built one snapshot and so added one
\* to the packet counter; the snapshots of these iterations are not shown.
loop_many ==
    /\ thread = "alive"
    /\ lpc = "check"
    /\ running
    /\ sock = "bound"
    /\ client_addr # None
    /\ cpc = "idle"
    /\ packet_counter = [hi |-> 0, lo |-> 0]
    /\ packet_counter' = [hi |-> Limb - 1, lo |-> Limb - 2]
    /\ wire' = <<>>
    /\ rx' = NoDatagram
    /\ UNCHANGED <<otherBound, sock, raised, running, thread, lpc, client_addr,
                   buttons, built, caller_vars>>
    /\ UNCHANGED <<reader_vars, stats_vars, framing_vars, llm_vars>>

\* time.sleep(0.016) has returned
loop_sleep ==
    /\ thread = "alive"
    /\ lpc = "sleep"
    /\ lpc' = "check"
    /\ wire' = <<>>
    /\ rx' = NoDatagram
    /\ UNCHANGED <<otherBound, sock, raised, running, thread, client_addr, buttons,
                   packet_counter, built, caller_vars>>
    /\ UNCHANGED <<reader_vars, stats_vars, framing_vars, llm_vars>>

\* ------------------------------------------------------------ start, stop
start ==
    /\ cpc = "idle"
    /\ sock # "none"
    /\ thread # "alive"
    /\ running' = TRUE
    /\ thread' = "alive"
    /\ lpc' = "check"
    /\ cpc' = "ret"
    /\ cop' = "start"
    /\ raised' = "none"
    /\ UNCHANGED <<otherBound, sock, client_addr, buttons, packet_counter, rx,
                   wire, built, cbutton, cdur, mvdx, mvdy, mvrx, mvry, pulselog,
                   observed>>
    /\ UNCHANGED <<reader_vars, stats_vars, framing_vars, llm_vars>>

stop ==
    /\ cpc = "idle"
    /\ sock # "none"
    /\ running' = FALSE
    /\ cop' = "stop"
    /\ raised' = "none"
    /\ IF thread # "none"
       THEN /\ cpc' = "join"
            /\ cdur' = JoinTimeoutMs
            /\ sock' = sock
       ELSE /\ cpc' = "ret"
            /\ cdur' = 0
            /\ sock' = "closed"
    /\ UNCHANGED <<otherBound, rx, thread, lpc, client_addr, buttons, packet_counter,
                   wire, built, cbutton, mvdx, mvdy, mvrx, mvry, pulselog, observed>>
    /\ UNCHANGED <<reader_vars, stats_vars, framing_vars, llm_vars>>

\* join(timeout=1.0) returns when the thread has ended or when the timeout has
\* passed; stop() does not look which, and closes the socket.
stop_join ==
    /\ cpc = "join"
    /\ sock' = "closed"
    /\ cpc' = "ret"
    /\ cdur' = 0
    /\ UNCHANGED <<otherBound, rx, raised, running, thread, lpc, client_addr, buttons,
                   packet_counter, wire, built, cop, cbutton, mvdx, mvdy, mvrx, mvry,
                   pulselog, observed>>
    /\ UNCHANGED <<reader_vars, stats_vars, framing_vars, llm_vars>>

\* ------------------------------------------------------------ press_button
\* whether press_button is called with the server started and a peer observed
Armed == running /\ thread = "alive" /\ client_addr # None

press_set(b, d) ==
    /\ buttons' = SetBit(buttons, b)
    /\ cbutton' = b
    /\ cdur' = d
    /\ cpc' = "hold"
    /\ pulselog' = Append(pulselog, <<"set", b>>)
    /\ observed' = IF Armed THEN "none" ELSE "n/a"

press_button ==
    /\ cpc = "idle"
    /\ sock # "none"
    /\ \E b \in Buttons, d \in Durations : press_set(b, d)
    /\ cop' = "press"
    /\ raised' = "none"
    /\ UNCHANGED <<otherBound, sock, running, thread, lpc, client_addr,
                   packet_counter, rx, wire, built, mvdx, mvdy, mvrx, mvry>>
    /\ UNCHANGED <<reader_vars, stats_vars, framing_vars, llm_vars>>

\* time.sleep(duration) has returned: the bit is cleared
press_release ==
    /\ cpc = "hold"
    /\ buttons' = ClearBit(buttons, cbutton)
    /\ pulselog' = Append(pulselog, <<"clear", cbutton>>)
    /\ IF cop = "move"
       THEN /\ cpc' = "gap"
            /\ cdur' = PulseGapMs
       ELSE /\ cpc' = "ret"
            /\ cdur' = cdur
    /\ UNCHANGED <<otherBound, sock, raised, running, thread, lpc, client_addr,
                   packet_counter, rx, wire, built, cop, cbutton, mvdx, mvdy,
                   mvrx, mvry, observed>>
    /\ UNCHANGED <<reader_vars, stats_vars, framing_vars, llm_vars>>

\* ------------------------------------------------------------- move_cursor
move_cursor ==
    /\ cpc = "idle"
    /\ sock # "none"
    /\ \E dx \in -MaxDelta..MaxDelta, dy \in -MaxDelta..MaxDelta :
          /\ mvdx' = dx
          /\ mvdy' = dy
          /\ mvrx' = Abs(dx)
          /\ mvry' = Abs(dy)
    /\ cop' = "move"
    /\ cpc' = "mvloop"
    /\ raised' = "none"
    /\ UNCHANGED <<otherBound, sock, running, thread, lpc, client_addr, buttons,
                   packet_counter, rx, wire, built, cbutton, cdur, pulselog,
                   observed>>
    /\ UNCHANGED <<reader_vars, stats_vars, framing_vars, llm_vars>>

\* the head of either for loop: press_dpad of the next pulse, or the end
move_step ==
    /\ cpc = "mvloop"
    /\ IF mvrx > 0 \/ mvry > 0
       THEN LET direction == IF mvrx > 0 THEN DirX(mvdx) ELSE DirY(mvdy)
                bit == DpadMapping(direction)
            IN  IF bit # NoneInt
                THEN press_set(bit, HoldDefaultMs)
                ELSE /\ cpc' = "gap"
                     /\ cdur' = PulseGapMs
                     /\ UNCHANGED <<buttons, cbutton, pulselog, observed>>
       ELSE /\ cpc' = "ret"
            /\ UNCHANGED <<buttons, cbutton, cdur, pulselog, observed>>
    /\ UNCHANGED <<otherBound, sock, raised, running, thread, lpc, client_addr,
                   packet_counter, rx, wire, built, cop, mvdx, mvdy, mvrx, mvry>>
    /\ UNCHANGED <<reader_vars, stats_vars, framing_vars, llm_vars>>

\* time.sleep(0.05) has returned: the next iteration
move_gap ==
    /\ cpc = "gap"
    /\ IF mvrx > 0
       THEN /\ mvrx' = mvrx - 1
            /\ mvry' = mvry
       ELSE /\ mvry' = mvry - 1
            /\ mvrx' = mvrx
    /\ cpc' = "mvloop"
    /\ cdur' = 0
    /\ UNCHANGED <<otherBound, sock, raised, running, thread, lpc, client_addr,
                   buttons, packet_counter, rx, wire, built, cop, cbutton, mvdx,
                   mvdy, pulselog, observed>>
    /\ UNCHANGED <<reader_vars, stats_vars, framing_vars, llm_vars>>

\* the call returns to the caller
Return ==
    /\ cpc = "ret"
    /\ cpc' = "idle"
    /\ cop' = "none"
    /\ cbutton' = NoneInt
    /\ cdur' = 0
    /\ mvdx' = 0
    /\ mvdy' = 0
    /\ mvrx' = 0
    /\ mvry' = 0
    /\ pulselog' = <<>>
    /\ observed' = "n/a"
    /\ UNCHANGED server_vars
    /\ UNCHANGED <<reader_vars, stats_vars, framing_vars, llm_vars>>

Next ==
    \/ Construct
    \/ loop_check
    \/ handle_requests_closed
    \/ handle_requests_empty
    \/ handle_requests
    \/ loop_send
    \/ loop_many
    \/ loop_sleep
    \/ start
    \/ stop
    \/ stop_join
    \/ press_button
    \/ press_release
    \/ move_cursor
    \/ move_step
    \/ move_gap
    \/ Return

Spec == Init /\ [][Next]_vars

\* ========================================================= GDBMemoryReader
\* Bytes are one-character strings; a byte string is a sequence of them.
HexDigits ==
    {"0", "1", "2", "3", "4", "5", "6", "7", "8", "9",
     "a", "b", "c", "d", "e", "f", "A", "B", "C", "D", "E", "F"}

HexVal(c) ==
    CASE c = "0" -> 0 [] c = "1" -> 1 [] c = "2" -> 2 [] c = "3" -> 3
      [] c = "4" -> 4 [] c = "5" -> 5 [] c = "6" -> 6 [] c = "7" -> 7
      [] c = "8" -> 8 [] c = "9" -> 9
      [] c \in {"a", "A"} -> 10 [] c \in {"b", "B"} -> 11
      [] c \in {"c", "C"} -> 12 [] c \in {"d", "D"} -> 13
      [] c \in {"e", "E"} -> 14 [] c \in {"f", "F"} -> 15

\* the ASCII whitespace bytes.fromhex skips between two bytes
Whitespace == {" ", "\t", "\n", "\r"}

\* a byte above 0x7f, which decode('ascii', errors='ignore') drops
NonAscii == "<80>"

\* what one recv call may return while the peer is up
Chunks ==
    { <<"+">>, <<"$">>, <<"#">>, <<"#", "a", "6">>,
      <<"9", "6", "0", "0">>, <<"E", "0", "1">>, <<"E", "0", "0">>,
      <<" ", " ">>, <<"1", "x">>, <<NonAscii>>,
      <<"$", "9", "6", "0", "0", "#", "c", "f">>,
      <<"$", "E", "0", "1", "#", "a", "6">>,
      <<"$", "0", "a", "0", "b", "0", "c", "0", "d", "#", "4", "a">> }

Sizes == {1, 2, 4}

Contains(s, c) == \E i \in 1..Len(s) : s[i] = c

\* 1-based positions of the first and of the last occurrence
IndexOf(s, c) == CHOOSE i \in 1..Len(s) : s[i] = c /\ \A j \in 1..(i - 1) : s[j] # c

RIndexOf(s, c) == CHOOSE i \in 1..Len(s) : s[i] = c /\ \A j \in (i + 1)..Len(s) : s[j] # c

\* Python's s[from:to] for 0 <= from, to <= len(s)
Slice(s, from, to) == IF to <= from THEN <<>> ELSE SubSeq(s, from + 1, to)

\* the test that leaves the receive loop: '#' and two more bytes are there
FrameEnded(received) ==
    Contains(received, "#") /\ Len(received) >= (IndexOf(received, "#") - 1) + 3

DecodeAscii(received) == SelectSeq(received, LAMBDA c : c # NonAscii)

NonePayload == [none |-> TRUE, str |-> <<>>]

StrPayload(s) == [none |-> FALSE, str |-> s]

\* the parse at the end of _send_packet
ParseResponse(received) ==
    LET resp_str == DecodeAscii(received) IN
    IF Contains(resp_str, "$") /\ Contains(resp_str, "#")
    THEN StrPayload(Slice(resp_str, (IndexOf(resp_str, "$") - 1) + 1,
                                    RIndexOf(resp_str, "#") - 1))
    ELSE StrPayload(resp_str)

\* bytes.fromhex
RECURSIVE FromHexAt(_, _)
FromHexAt(s, i) ==
    IF i > Len(s) THEN [ok |-> TRUE, bytes |-> <<>>]
    ELSE IF s[i] \in Whitespace THEN FromHexAt(s, i + 1)
    ELSE IF i + 1 <= Len(s) /\ s[i] \in HexDigits /\ s[i + 1] \in HexDigits
    THEN LET rest == FromHexAt(s, i + 2) IN
         [ok |-> rest.ok,
          bytes |-> <<16 * HexVal(s[i]) + HexVal(s[i + 1])>> \o rest.bytes]
    ELSE [ok |-> FALSE, bytes |-> <<>>]

FromHex(s) == FromHexAt(s, 1)

ByteAt(bytes, i) == IF i <= Len(bytes) THEN bytes[i] ELSE 0

\* the bytes taken most significant first
FromBytesLittle_Big(bytes) ==
    LET n == Len(bytes)
        r == [i \in 1..n |-> bytes[n + 1 - i]]
    IN  [hi |-> (IF 3 <= n THEN r[3] ELSE 0) + 256 * (IF 4 <= n THEN r[4] ELSE 0),
         lo |-> (IF 1 <= n THEN r[1] ELSE 0) + 256 * (IF 2 <= n THEN r[2] ELSE 0)]

\* int.from_bytes(bytes, 'little') of at most four bytes, as two 16-bit limbs
FromBytesLittle(bytes) ==
    [hi |-> ByteAt(bytes, 3) + 256 * ByteAt(bytes, 4),
     lo |-> ByteAt(bytes, 1) + 256 * ByteAt(bytes, 2)]

NoneValue == [hi |-> NoneInt, lo |-> NoneInt]

E00 == <<"E", "0", "0">>

\* read_memory's decoding of what _send_packet returned
DecodeValue(reply, size) ==
    IF ~reply.none /\ reply.str # <<>> /\ reply.str # E00
       /\ Len(reply.str) >= size * 2
    THEN LET hex_bytes == Slice(reply.str, 0, size * 2)
             parsed == FromHex(hex_bytes)
         IN  IF parsed.ok THEN FromBytesLittle(parsed.bytes) ELSE NoneValue
    ELSE NoneValue

\* ord(c) of the ASCII characters a command or a response is made of
Ord(c) ==
    CASE c = "\t" -> 9
      [] c = "\n" -> 10
      [] c = "\r" -> 13
      [] c = " " -> 32
      [] c = "#" -> 35
      [] c = "$" -> 36
      [] c = "+" -> 43
      [] c = "," -> 44
      [] c = "0" -> 48
      [] c = "1" -> 49
      [] c = "2" -> 50
      [] c = "3" -> 51
      [] c = "4" -> 52
      [] c = "5" -> 53
      [] c = "6" -> 54
      [] c = "7" -> 55
      [] c = "8" -> 56
      [] c = "9" -> 57
      [] c = "A" -> 65
      [] c = "B" -> 66
      [] c = "C" -> 67
      [] c = "D" -> 68
      [] c = "E" -> 69
      [] c = "F" -> 70
      [] c = "a" -> 97
      [] c = "b" -> 98
      [] c = "c" -> 99
      [] c = "d" -> 100
      [] c = "e" -> 101
      [] c = "f" -> 102
      [] c = "m" -> 109
      [] c = "x" -> 120

RECURSIVE SumOrd(_)
SumOrd(data) == IF data = <<>> THEN 0 ELSE Ord(Head(data)) + SumOrd(Tail(data))

\* _checksum: the sum of the characters modulo 256
checksum(data) == SumOrd(data) % 256

\* format(n, 'x') and format(n, 'd') of n >= 0
HexChars ==
    <<"0", "1", "2", "3", "4", "5", "6", "7", "8", "9", "a", "b", "c", "d", "e", "f">>

RECURSIVE ToBase(_, _)
ToBase(n, base) ==
    IF n < base THEN <<HexChars[n + 1]>>
    ELSE ToBase(n \div base, base) \o <<HexChars[(n % base) + 1]>>

\* format(n, '02x')
Hex02(n) == IF n < 16 THEN <<"0">> \o ToBase(n, 16) ELSE ToBase(n, 16)

\* f"m{address:x},{size}"
ReadCommand(address, size) ==
    <<"m">> \o ToBase(address, 16) \o <<",">> \o ToBase(size, 10)

\* the packet with "00" in place of the checksum
GdbPacket_ZeroChecksum(command) ==
    <<"$">> \o command \o <<"#", "0", "0">>

\* f"${command}#{self._checksum(command)}"
GdbPacket(command) ==
    <<"$">> \o command \o <<"#">> \o Hex02(checksum(command))

\* the addresses read_memory is called with: hp of unit 1, magic_ready of unit 5
ReadAddresses ==
    {UNIT_BASE_ADDR + OFFSETS.hp,
     UNIT_BASE_ADDR + (UNIT_COUNT - 1) * UNIT_OFFSET + OFFSETS.magic_ready}

\* _send_packet returns p by the path how; read_memory decodes it
Finish(p, how, size) ==
    /\ payload' = p
    /\ rhow' = how
    /\ result' = DecodeValue(p, size)
    /\ rpc' = "ret"
    /\ rwait' = 0
    /\ rtotal' = 0

connect ==
    /\ rpc = "idle"
    /\ sop = "none"
    /\ rsocket' = "socket"
    /\ \E ok \in BOOLEAN :
          /\ connected' = ok
          /\ peer' = IF ok THEN "up" ELSE "down"
    /\ late' = NoneInt
    /\ UNCHANGED <<rpc, rsize, response, nchunks, rwait, rtotal, payload, rhow,
                   result, rframes>>
    /\ UNCHANGED <<server_vars, caller_vars, stats_vars, framing_vars, llm_vars>>

disconnect ==
    /\ rpc = "idle"
    /\ sop = "none"
    /\ rsocket # "none"
    /\ rsocket' = "none"
    /\ connected' = FALSE
    /\ peer' = "down"
    /\ late' = NoneInt
    /\ UNCHANGED <<rpc, rsize, response, nchunks, rwait, rtotal, payload, rhow,
                   result, rframes>>
    /\ UNCHANGED <<server_vars, caller_vars, stats_vars, framing_vars, llm_vars>>

\* the stub closes its end of the connection
peer_close ==
    /\ peer = "up"
    /\ peer' = "closed"
    /\ UNCHANGED <<rsocket, connected, rpc, rsize, response, nchunks, rwait,
                   rtotal, payload, rhow, result, rframes, late>>
    /\ UNCHANGED <<server_vars, caller_vars, stats_vars, framing_vars, llm_vars>>

\* read_memory up to the end of sendall
read_memory ==
    /\ rpc = "idle"
    /\ sop = "none"
    /\ \E address \in ReadAddresses, size \in Sizes :
          /\ rsize' = size
          /\ IF rsocket = "none" \/ ~connected
             THEN /\ Finish(NonePayload, "noconn", size)
                  /\ rframes' = <<>>
             ELSE \E sent \in BOOLEAN :
                     /\ rframes' = <<[address |-> address, size |-> size, sent |-> sent,
                                      packet |-> GdbPacket(ReadCommand(address, size))]>>
                     /\ IF sent
                        THEN /\ rpc' = "recv"
                             /\ rwait' = 0
                             /\ rtotal' = 0
                             /\ UNCHANGED <<payload, rhow, result>>
                        ELSE Finish(NonePayload, "senderr", size)
    /\ response' = <<>>
    /\ nchunks' = 0
    /\ UNCHANGED <<rsocket, connected, peer, late>>
    /\ UNCHANGED <<server_vars, caller_vars, stats_vars, framing_vars, llm_vars>>

\* one second passes inside recv; the socket's timeout runs from the start
\* of each recv call
recv_wait ==
    /\ rpc = "recv"
    /\ rwait < RecvTimeout
    /\ rtotal < MaxTotal
    /\ rwait' = rwait + 1
    /\ rtotal' = rtotal + 1
    /\ UNCHANGED <<rsocket, connected, peer, rpc, rsize, response, nchunks,
                   payload, rhow, result, rframes, late>>
    /\ UNCHANGED <<server_vars, caller_vars, stats_vars, framing_vars, llm_vars>>

recv_chunk ==
    /\ rpc = "recv"
    /\ peer = "up"
    /\ nchunks < MaxChunks
    /\ \E chunk \in Chunks :
          /\ response' = response \o chunk
          /\ nchunks' = nchunks + 1
          /\ IF FrameEnded(response')
             THEN /\ Finish(ParseResponse(response'), "parsed", rsize)
                  /\ late' = IF late = NoneInt THEN NoneInt ELSE rframes[1].address
             ELSE /\ rwait' = 0
                  /\ UNCHANGED <<rpc, rtotal, payload, rhow, result, late>>
    /\ UNCHANGED <<rsocket, connected, peer, rsize, rframes>>
    /\ UNCHANGED <<server_vars, caller_vars, stats_vars, framing_vars, llm_vars>>

\* recv returns b"" after the peer has closed
recv_eof ==
    /\ rpc = "recv"
    /\ peer = "closed"
    /\ Finish(ParseResponse(response), "parsed", rsize)
    /\ UNCHANGED <<rsocket, connected, peer, rsize, response, nchunks, rframes, late>>
    /\ UNCHANGED <<server_vars, caller_vars, stats_vars, framing_vars, llm_vars>>

\* recv raises socket.timeout. Nothing is read from the socket or said to
\* the stub: a response the stub sends after this stays in the stream, where
\* the first recv of the next call finds it; a response that was already
\* late stays ahead of it.
recv_timeout ==
    /\ rpc = "recv"
    /\ rwait = RecvTimeout
    /\ Finish(NonePayload, "timeout", rsize)
    /\ \E arrives \in BOOLEAN :
          late' = IF late = NoneInt /\ arrives /\ peer = "up"
                  THEN rframes[1].address ELSE late
    /\ UNCHANGED <<rsocket, connected, peer, rsize, response, nchunks, rframes>>
    /\ UNCHANGED <<server_vars, caller_vars, stats_vars, framing_vars, llm_vars>>

\* recv raises another exception (ConnectionResetError)
recv_error ==
    /\ rpc = "recv"
    /\ Finish(NonePayload, "recverr", rsize)
    /\ UNCHANGED <<rsocket, connected, peer, rsize, response, nchunks, rframes, late>>
    /\ UNCHANGED <<server_vars, caller_vars, stats_vars, framing_vars, llm_vars>>

read_return ==
    /\ rpc = "ret"
    /\ rpc' = "idle"
    /\ rsize' = 0
    /\ response' = <<>>
    /\ nchunks' = 0
    /\ payload' = NonePayload
    /\ rhow' = "n/a"
    /\ result' = NoneValue
    /\ rframes' = <<>>
    /\ UNCHANGED <<rsocket, connected, peer, rwait, rtotal, late>>
    /\ UNCHANGED <<server_vars, caller_vars, stats_vars, framing_vars, llm_vars>>

NextReader ==
    \/ connect
    \/ disconnect
    \/ peer_close
    \/ read_memory
    \/ recv_wait
    \/ recv_chunk
    \/ recv_eof
    \/ recv_timeout
    \/ recv_error
    \/ read_return

\* the reader runs without a gamepad server
InitReader == Init /\ ~otherBound

SpecReader == InitReader /\ [][NextReader]_vars

\* ============================== read_unit_stats, read_game_state, PowerManager
\* These operations run in the one caller thread and reach the stub only
\* through read_memory, so each is one step: what every read_memory call of
\* the operation returns is the environment's choice, drawn when it begins.
\* the slots half a stride apart
UNIT_ADDRESSES_HalfStride ==
    [unit_id \in 1..UNIT_COUNT |->
        [name \in DOMAIN OFFSETS |->
            UNIT_BASE_ADDR + (unit_id - 1) * (UNIT_OFFSET \div 2) + OFFSETS[name]]]

UNIT_ADDRESSES ==
    [unit_id \in 1..UNIT_COUNT |->
        [name \in DOMAIN OFFSETS |->
            UNIT_BASE_ADDR + (unit_id - 1) * UNIT_OFFSET + OFFSETS[name]]]

RAMZA_ADDRESSES == [job_id |-> 17089722, ability2_id |-> 17089727]

\* the reads of read_unit_stats, in the order of the code
ReadOrder ==
    << [field |-> "hp", size |-> 2], [field |-> "mp", size |-> 2],
       [field |-> "max_hp", size |-> 2], [field |-> "max_mp", size |-> 2],
       [field |-> "brave", size |-> 1], [field |-> "faith", size |-> 1],
       [field |-> "speed", size |-> 1], [field |-> "attack", size |-> 2],
       [field |-> "attack2", size |-> 2], [field |-> "move_count", size |-> 1],
       [field |-> "max_moves", size |-> 2],
       [field |-> "status_shield_1", size |-> 2],
       [field |-> "status_shield_2", size |-> 2],
       [field |-> "magic_ready", size |-> 1],
       [field |-> "skill_poaching", size |-> 2],
       [field |-> "skill_xp_hp_move", size |-> 2],
       [field |-> "skill_fly", size |-> 2] >>

RamzaOrder ==
    << [field |-> "job_id", size |-> 1], [field |-> "ability2_id", size |-> 1] >>

StatFields ==
    {ReadOrder[i].field : i \in 1..Len(ReadOrder)}
        \cup {RamzaOrder[i].field : i \in 1..Len(RamzaOrder)}

\* read_memory calls of one read_unit_stats (of unit 1), of one read_game_state
MaxUnitReads == Len(ReadOrder) + Len(RamzaOrder)

MaxGameReads == MaxUnitReads + (UNIT_COUNT - 1) * Len(ReadOrder)

\* UnitStats(unit_id = unit_id): every other field at its default
UnitStats(unit_id) ==
    [unit_id |-> unit_id, hp |-> 0, max_hp |-> 0, mp |-> 0, max_mp |-> 0,
     brave |-> 0, faith |-> 0, speed |-> 0, attack |-> 0, attack2 |-> 0,
     move_count |-> 0, max_moves |-> 0, status_shield_1 |-> 0,
     status_shield_2 |-> 0, magic_ready |-> FALSE, job_id |-> 0,
     ability2_id |-> 0, skill_poaching |-> FALSE, skill_xp_hp_move |-> FALSE,
     skill_fly |-> FALSE]

\* read_unit_stats returned None
NoStats == [unit_id |-> NoneInt]

\* the read_memory calls read_unit_stats makes for a unit
ReadPlan(unit_id) ==
    LET addrs == UNIT_ADDRESSES[unit_id]
        mapped == SelectSeq(ReadOrder, LAMBDA r : r.field \in DOMAIN addrs)
        unit_reads == [i \in 1..Len(mapped) |->
                          [field |-> mapped[i].field, size |-> mapped[i].size,
                           address |-> addrs[mapped[i].field]]]
        ramza_reads == [i \in 1..Len(RamzaOrder) |->
                          [field |-> RamzaOrder[i].field, size |-> RamzaOrder[i].size,
                           address |-> RAMZA_ADDRESSES[RamzaOrder[i].field]]]
    IN  IF unit_id = 1 THEN unit_reads \o ramza_reads ELSE unit_reads

\* what the stub's memory holds for a field
FieldIndex(f) ==
    CHOOSE i \in 1..(Len(ReadOrder) + Len(RamzaOrder)) :
        (ReadOrder \o RamzaOrder)[i].field = f

Images ==
    { [f \in StatFields |-> 0], [f \in StatFields |-> 1],
      [f \in StatFields |-> 100 + FieldIndex(f)] }

\* the sets of at most k of the read positions 1..n
RECURSIVE SetsUpTo(_, _)
SetsUpTo(n, k) ==
    IF k = 0 THEN {{}}
    ELSE LET smaller == SetsUpTo(n, k - 1) IN
         smaller \cup {s \cup {a} : s \in smaller, a \in 1..n}

\* the environment of one operation: which of its read_memory calls fail
\* (some, or all of them over a dead connection) and what memory holds
Envs(n) ==
    [fails : SetsUpTo(n, MaxFail) \cup {1..n}, image : Images]

NoEnv == [fails |-> {}, image |-> <<>>]

\* read_memory as its callers see it: None, or the size low bytes read
ReadMemoryResult(conn, failed, value, size) ==
    IF ~conn \/ failed THEN NoneInt
    ELSE value % (IF size = 1 THEN 256 ELSE Limb)

\* the assignment read_unit_stats makes for a field
Convert(field, val) ==
    IF field \in {"hp", "mp", "max_hp", "max_mp"} THEN val % Limb
    ELSE IF field = "magic_ready" THEN val = 1
    ELSE IF field \in {"skill_poaching", "skill_xp_hp_move", "skill_fly"} THEN val # 0
    ELSE val

\* a failed read also assigned
StoreField_Always(stats, field, val) ==
    [stats EXCEPT ![field] = IF val = NoneInt THEN val ELSE Convert(field, val)]

StoreField(stats, field, val) ==
    IF val # NoneInt THEN [stats EXCEPT ![field] = Convert(field, val)] ELSE stats

RECURSIVE ReadFields(_, _, _, _, _, _)
ReadFields(stats, plan, i, base, conn, env) ==
    IF i > Len(plan) THEN stats
    ELSE ReadFields(
            StoreField(stats, plan[i].field,
                ReadMemoryResult(conn, (base + i) \in env.fails,
                                 env.image[plan[i].field], plan[i].size)),
            plan, i + 1, base, conn, env)

\* the read_memory calls of a plan; a call sends its command when connected
CallsOf(plan, conn) ==
    [i \in 1..Len(plan) |->
        [address |-> plan[i].address, size |-> plan[i].size, sent |-> conn]]

ReadUnitStats(unit_id, base, conn, env) ==
    IF unit_id \notin DOMAIN UNIT_ADDRESSES THEN NoStats
    ELSE ReadFields(UnitStats(unit_id), ReadPlan(unit_id), 1, base, conn, env)

ReadUnitCalls(unit_id, conn) ==
    IF unit_id \notin DOMAIN UNIT_ADDRESSES THEN <<>>
    ELSE CallsOf(ReadPlan(unit_id), conn)

Conn == rsocket # "none" /\ connected

NoGameState == [connected |-> FALSE, error |-> None, units |-> <<>>]

read_unit_stats ==
    /\ rpc = "idle"
    /\ sop = "none"
    /\ \E unit_id \in UnitIds, env \in Envs(MaxUnitReads) :
          /\ sop' = "read_unit_stats"
          /\ sarg' = unit_id
          /\ senv' = env
          /\ ustats' = ReadUnitStats(unit_id, 0, Conn, env)
          /\ scalls' = ReadUnitCalls(unit_id, Conn)
    /\ sattempts' = 0
    /\ sraised' = "none"
    /\ gstate' = NoGameState
    /\ UNCHANGED <<power_ups_used, penabled, pret, pwrites>>
    /\ UNCHANGED <<server_vars, caller_vars, reader_vars, framing_vars, llm_vars>>

\* range(5) in place of range(1, 6)
GameSlots_FromZero == <<0, 1, 2, 3, 4>>

\* range(1, 6)
GameSlots == <<1, 2, 3, 4, 5>>

\* the loop of read_game_state from its k-th slot on: the units appended and
\* the read_memory calls made; the environment names the failing reads by
\* their position within one read_unit_stats call, the same for every slot
RECURSIVE ReadSlots(_, _, _)
ReadSlots(k, conn, env) ==
    IF k > Len(GameSlots) THEN [units |-> <<>>, calls |-> <<>>]
    ELSE LET unit == ReadUnitStats(GameSlots[k], 0, conn, env)
             calls == ReadUnitCalls(GameSlots[k], conn)
             rest == ReadSlots(k + 1, conn, env)
         IN  [units |-> (IF unit # NoStats THEN <<unit>> ELSE <<>>) \o rest.units,
              calls |-> calls \o rest.calls]

ConnectFailed == "Failed to connect to GDB stub"

read_game_state ==
    /\ rpc = "idle"
    /\ sop = "none"
    /\ sop' = "read_game_state"
    /\ \E env \in Envs(MaxUnitReads) :
          /\ senv' = env
          /\ IF ~connected
             THEN /\ sattempts' = 1
                  /\ rsocket' = "socket"
                  /\ \E ok \in BOOLEAN :
                        /\ connected' = ok
                        /\ peer' = IF ok THEN "up" ELSE "down"
                  /\ late' = NoneInt
             ELSE /\ sattempts' = 0
                  /\ UNCHANGED <<rsocket, connected, peer, late>>
          /\ IF ~connected'
             THEN /\ gstate' = [connected |-> FALSE, error |-> ConnectFailed,
                                units |-> <<>>]
                  /\ scalls' = <<>>
             ELSE LET read == ReadSlots(1, rsocket' # "none" /\ connected', env) IN
                  /\ gstate' = [connected |-> TRUE, error |-> None,
                                units |-> read.units]
                  /\ scalls' = read.calls
    /\ sarg' = 0
    /\ ustats' = NoStats
    /\ sraised' = "none"
    /\ UNCHANGED <<power_ups_used, penabled, pret, pwrites>>
    /\ UNCHANGED <<rpc, rsize, response, nchunks, rwait, rtotal, payload, rhow,
                   result, rframes>>
    /\ UNCHANGED <<server_vars, caller_vars, framing_vars, llm_vars>>

\* the caller has taken the result of its call
stats_return ==
    /\ sop # "none"
    /\ sop' = "none"
    /\ sarg' = 0
    /\ senv' = NoEnv
    /\ ustats' = NoStats
    /\ gstate' = NoGameState
    /\ scalls' = <<>>
    /\ sattempts' = 0
    /\ sraised' = "none"
    /\ pret' = "none"
    /\ pwrites' = <<>>
    /\ UNCHANGED <<power_ups_used, penabled>>
    /\ UNCHANGED <<server_vars, caller_vars, reader_vars, framing_vars, llm_vars>>

\* ------------------------------------------------------------ PowerManager
can_power_up ==
    penabled /\ connected /\ power_ups_used < max_power_ups_per_battle

\* self.reader.write_memory(address, value, size): GDBMemoryReader defines no
\* write_memory, so the attribute lookup raises AttributeError
WriteOutcomes == {"AttributeError"}

Min(a, b) == IF a < b THEN a ELSE b

\* the value a power-up writes, from the values it read and its argument
PowerValue(op, v, amount) ==
    IF op \in {"heal_unit", "restore_mp"}
    THEN IF amount = NoneInt THEN v[2] ELSE Min(v[1] + amount, v[2])
    ELSE IF op \in {"boost_brave", "boost_faith"} THEN Min(amount, 100)
    ELSE v[1] \div 2

\* the common shape of the power-ups: the guards, the reads of fields, the
\* None test on all of them, the write of the new value to target
PowerUp(op, unit_id, env, fields, target, size, amount) ==
    LET valid == can_power_up /\ unit_id \in DOMAIN UNIT_ADDRESSES
        vals == [i \in 1..Len(fields) |->
                    ReadMemoryResult(Conn, i \in env.fails, env.image[fields[i]], 2)]
    IN
    /\ sop' = op
    /\ sarg' = unit_id
    /\ senv' = env
    /\ scalls' = IF valid
                 THEN [i \in 1..Len(fields) |->
                          [address |-> UNIT_ADDRESSES[unit_id][fields[i]],
                           size |-> 2, sent |-> Conn]]
                 ELSE <<>>
    /\ IF valid /\ \A i \in 1..Len(fields) : vals[i] # NoneInt
       THEN /\ pwrites' = <<[address |-> UNIT_ADDRESSES[unit_id][target],
                             value |-> PowerValue(op, vals, amount), size |-> size]>>
            /\ \E outcome \in WriteOutcomes :
                  IF outcome = "AttributeError"
                  THEN /\ sraised' = "AttributeError"
                       /\ pret' = "none"
                       /\ UNCHANGED power_ups_used
                  ELSE IF outcome = "True"
                  THEN /\ sraised' = "none"
                       /\ pret' = "True"
                       /\ power_ups_used' = power_ups_used + 1
                  ELSE /\ sraised' = "none"
                       /\ pret' = "False"
                       /\ UNCHANGED power_ups_used
       ELSE /\ pwrites' = <<>>
            /\ sraised' = "none"
            /\ pret' = "False"
            /\ UNCHANGED power_ups_used
    /\ ustats' = NoStats
    /\ gstate' = NoGameState
    /\ sattempts' = 0
    /\ UNCHANGED penabled
    /\ UNCHANGED <<server_vars, caller_vars, reader_vars, framing_vars, llm_vars>>

Amounts == {NoneInt, 1, 10}

Targets == {97, 150}

heal_unit ==
    /\ rpc = "idle"
    /\ sop = "none"
    /\ \E unit_id \in UnitIds, amount \in Amounts, env \in Envs(2) :
           PowerUp("heal_unit", unit_id, env, <<"hp", "max_hp">>, "hp", 2, amount)

restore_mp ==
    /\ rpc = "idle"
    /\ sop = "none"
    /\ \E unit_id \in UnitIds, amount \in Amounts, env \in Envs(2) :
           PowerUp("restore_mp", unit_id, env, <<"mp", "max_mp">>, "mp", 2, amount)

boost_brave ==
    /\ rpc = "idle"
    /\ sop = "none"
    /\ \E unit_id \in UnitIds, target_brave \in Targets, env \in Envs(0) :
           PowerUp("boost_brave", unit_id, env, <<>>, "brave", 1, target_brave)

boost_faith ==
    /\ rpc = "idle"
    /\ sop = "none"
    /\ \E unit_id \in UnitIds, target_faith \in Targets, env \in Envs(0) :
           PowerUp("boost_faith", unit_id, env, <<>>, "faith", 1, target_faith)

emergency_revive ==
    /\ rpc = "idle"
    /\ sop = "none"
    /\ \E unit_id \in UnitIds, env \in Envs(1) :
           PowerUp("emergency_revive", unit_id, env, <<"max_hp">>, "hp", 2, NoneInt)

\* the GameMemoryState values emergency_assist is called with: up to two
\* units, each without max_hp, dead, critical (below 30%) or healthy
AssistUnits ==
    {[UnitStats(u) EXCEPT !.hp = h[1], !.max_hp = h[2]] :
        u \in {1, 2}, h \in {<<0, 0>>, <<0, 100>>, <<20, 100>>, <<50, 100>>}}

AssistStates ==
    {<<>>} \cup {<<a>> : a \in AssistUnits} \cup {<<a, b>> : a, b \in AssistUnits}

\* the loop of emergency_assist from its k-th unit on: a unit with max_hp 0
\* or with hp at 30% or more is skipped, a dead one gets emergency_revive, a
\* critical one heal_unit; a power-up that fails a guard or a read returns
\* False and the loop goes on, one that reaches its write raises
RECURSIVE Assist(_, _, _)
Assist(units, k, env) ==
    IF k > Len(units)
    THEN [assists |-> 0, raised |-> "none", calls |-> <<>>, writes |-> <<>>]
    ELSE LET unit == units[k]
             op == IF unit.max_hp = 0 THEN "skip"
                   ELSE IF unit.hp = 0 THEN "emergency_revive"
                   ELSE IF 10 * unit.hp < 3 * unit.max_hp THEN "heal_unit"
                   ELSE "skip"
             fields == IF op = "heal_unit" THEN <<"hp", "max_hp">> ELSE <<"max_hp">>
             valid == can_power_up /\ unit.unit_id \in DOMAIN UNIT_ADDRESSES
             vals == [i \in 1..Len(fields) |->
                         ReadMemoryResult(Conn, i \in env.fails, env.image[fields[i]], 2)]
             calls == IF valid
                      THEN [i \in 1..Len(fields) |->
                               [address |-> UNIT_ADDRESSES[unit.unit_id][fields[i]],
                                size |-> 2, sent |-> Conn]]
                      ELSE <<>>
         IN  IF op = "skip" THEN Assist(units, k + 1, env)
             ELSE IF valid /\ \A i \in 1..Len(fields) : vals[i] # NoneInt
             THEN [assists |-> 0, raised |-> "AttributeError", calls |-> calls,
                   writes |-> <<[address |-> UNIT_ADDRESSES[unit.unit_id]["hp"],
                                 value |-> PowerValue(op, vals, NoneInt),
                                 size |-> 2]>>]
             ELSE LET rest == Assist(units, k + 1, env)
                  IN  [rest EXCEPT !.calls = calls \o rest.calls]

\* the count emergency_assist returns, as text
CountText(n) == CASE n = 0 -> "0" [] n = 1 -> "1" [] n = 2 -> "2" [] OTHER -> "3"

emergency_assist ==
    /\ rpc = "idle"
    /\ sop = "none"
    /\ \E state \in AssistStates, env \in Envs(2) :
          LET r == Assist(state, 1, env) IN
          /\ senv' = env
          /\ gstate' = [connected |-> TRUE, error |-> None, units |-> state]
          /\ scalls' = r.calls
          /\ pwrites' = r.writes
          /\ sraised' = r.raised
          /\ pret' = IF r.raised = "none" THEN CountText(r.assists) ELSE "none"
    /\ sop' = "emergency_assist"
    /\ sarg' = 0
    /\ ustats' = NoStats
    /\ sattempts' = 0
    /\ UNCHANGED <<power_ups_used, penabled>>
    /\ UNCHANGED <<server_vars, caller_vars, reader_vars, framing_vars, llm_vars>>

reset_battle_counter ==
    /\ rpc = "idle"
    /\ sop = "none"
    /\ power_ups_used' = 0
    /\ UNCHANGED <<sop, sarg, senv, ustats, gstate, scalls, sattempts, sraised,
                   penabled, pret, pwrites>>
    /\ UNCHANGED <<server_vars, caller_vars, reader_vars, framing_vars, llm_vars>>

\* self.enabled set from the configuration
set_enabled ==
    /\ rpc = "idle"
    /\ sop = "none"
    /\ penabled' = ~penabled
    /\ UNCHANGED <<sop, sarg, senv, ustats, gstate, scalls, sattempts, sraised,
                   power_ups_used, pret, pwrites>>
    /\ UNCHANGED <<server_vars, caller_vars, reader_vars, framing_vars, llm_vars>>

NextStats ==
    \/ connect
    \/ disconnect
    \/ read_unit_stats
    \/ read_game_state
    \/ heal_unit
    \/ restore_mp
    \/ boost_brave
    \/ boost_faith
    \/ emergency_revive
    \/ emergency_assist
    \/ reset_battle_counter
    \/ set_enabled
    \/ stats_return

SpecStats == InitReader /\ [][NextStats]_vars

\* ===================================================== DSU packet framing
\* The encoders and the decoder as functions on bytes (integers 0..255).
PackU16(v) == <<v % 256, (v \div 256) % 256>>

\* struct.pack('<I', v) for 0 <= v < 2^31
PackU32(v) ==
    <<v % 256, (v \div 256) % 256, (v \div Limb) % 256, (v \div (256 * Limb)) % 256>>

\* struct.unpack('<I', ...) of the four bytes after offset off
UnpackU32(bytes, off) ==
    bytes[off + 1] + 256 * bytes[off + 2] + Limb * bytes[off + 3]
        + 256 * Limb * bytes[off + 4]

RECURSIVE Zeros(_)
Zeros(n) == IF n = 0 THEN <<>> ELSE <<0>> \o Zeros(n - 1)

\* struct.pack('<IHHIII', magic, version, length, crc, id, type)
PackHeader(magic, version, length, crc, id, type) ==
    PackU32(magic) \o PackU16(version) \o PackU16(length) \o PackU32(crc)
        \o PackU32(id) \o PackU32(type)

build_header(msg_type, payload_len, server_id) ==
    PackHeader(SERVER_MAGIC, PROTOCOL_VERSION, payload_len, 0, server_id, msg_type)

\* a request as a DSU client frames it
ClientRequest(msg_type, payload_len, client_id) ==
    PackHeader(CLIENT_MAGIC, PROTOCOL_VERSION, payload_len, 0, client_id, msg_type)

\* what _parse_request reads of a datagram
DatagramOf(bytes, from) ==
    [len |-> Len(bytes),
     magic |-> IF Len(bytes) >= HEADER_LEN THEN UnpackU32(bytes, 0) ELSE 0,
     type |-> IF Len(bytes) >= HEADER_LEN THEN UnpackU32(bytes, 16) ELSE 0,
     from |-> from]

build_port_info == <<0, 2, 3, 1, 0, 0, 0, 0, 0, 0, 5, 1>>

\* the integer of a set of button bits
RECURSIVE BitsValue(_)
BitsValue(bits) ==
    IF bits = {} THEN 0
    ELSE LET b == CHOOSE x \in bits : TRUE IN b + BitsValue(bits \ {b})

\* struct.pack('<I', counter) of a counter of two 16-bit limbs
PackCounter(c) == PackU16(c.lo) \o PackU16(c.hi)

\* struct.pack('<Q', t) of a timestamp of four 16-bit limbs, low limb first
PackU64(t) == PackU16(t[1]) \o PackU16(t[2]) \o PackU16(t[3]) \o PackU16(t[4])

\* the payload _build_pad_data assembles after its increment of the counter
PadPayload(state, timestamp) ==
    build_port_info
        \o PackCounter(state.packet_counter)
        \o PackU16(BitsValue(state.buttons))
        \o <<0, 0>>
        \o <<state.left_stick_x, state.left_stick_y,
             state.right_stick_x, state.right_stick_y>>
        \o Zeros(12) \o Zeros(12)
        \o PackU64(timestamp)
        \o Zeros(12) \o Zeros(12)

SERVER_ID == 305419896

ServerIds == {0, SERVER_ID}

MsgTypes == {TYPE_VERSION, TYPE_PORTINFO, TYPE_PADDATA}

\* byte strings of at most n bytes, each 0 or 255
RECURSIVE BytesUpTo(_)
BytesUpTo(n) ==
    IF n = 0 THEN {<<>>}
    ELSE LET shorter == BytesUpTo(n - 1) IN
         shorter \cup {<<b>> \o s : b \in {0, 255}, s \in {t \in shorter : Len(t) = n - 1}}

DefaultState ==
    [buttons |-> {}, left_stick_x |-> 128, left_stick_y |-> 128,
     right_stick_x |-> 128, right_stick_y |-> 128,
     packet_counter |-> [hi |-> 0, lo |-> 1]]

Payloads ==
    BytesUpTo(MaxPayload)
        \cup {PackU16(PROTOCOL_VERSION), build_port_info,
              PadPayload(DefaultState, <<0, 0, 0, 0>>)}

\* the Controller State values a build may meet: the counter before the build
Sticks == {0, 128, 255}

Counters ==
    {[hi |-> 0, lo |-> 0], [hi |-> 0, lo |-> Limb - 1],
     [hi |-> Limb - 1, lo |-> Limb - 2], [hi |-> Limb - 1, lo |-> Limb - 1]}

Timestamps == {<<0, 0, 0, 0>>, <<Limb - 1, 1, Limb - 1, 5>>}

NoFrameInput == [kind |-> "none"]

\* _build_header plus payload, for the three response builders
encode_packet ==
    /\ fpc = "idle"
    /\ \E msg_type \in MsgTypes, server_id \in ServerIds, body \in Payloads :
          /\ fin' = [kind |-> "packet", msg_type |-> msg_type, id |-> server_id,
                     payload |-> body]
          /\ fpacket' = build_header(msg_type, Len(body) + 4, server_id) \o body
    /\ fpc' = "built"
    /\ ferr' = "none"
    /\ UNCHANGED fparsed
    /\ UNCHANGED <<server_vars, caller_vars, reader_vars, stats_vars, llm_vars>>

\* a datagram a DSU client sends
client_request ==
    /\ fpc = "idle"
    /\ \E msg_type \in MsgTypes, client_id \in ServerIds, body \in Payloads :
          /\ fin' = [kind |-> "request", msg_type |-> msg_type, id |-> client_id,
                     payload |-> body]
          /\ fpacket' = ClientRequest(msg_type, Len(body) + 4, client_id) \o body
    /\ fpc' = "built"
    /\ ferr' = "none"
    /\ UNCHANGED fparsed
    /\ UNCHANGED <<server_vars, caller_vars, reader_vars, stats_vars, llm_vars>>

decode_packet ==
    /\ fpc = "built"
    /\ fparsed' = parse_request(DatagramOf(fpacket, "peerA"))
    /\ fpc' = "parsed"
    /\ UNCHANGED <<fin, fpacket, ferr>>
    /\ UNCHANGED <<server_vars, caller_vars, reader_vars, stats_vars, llm_vars>>

\* _build_pad_data up to its assertion, from a Controller State
build_pad_payload ==
    /\ fpc = "idle"
    /\ \E bits \in SUBSET Buttons, lx \in Sticks, ly \in Sticks, rsx \in {128},
          rsy \in {128}, counter \in Counters, timestamp \in Timestamps :
          LET state == [buttons |-> bits, left_stick_x |-> lx, left_stick_y |-> ly,
                        right_stick_x |-> rsx, right_stick_y |-> rsy,
                        packet_counter |-> CounterInc(counter)]
          IN  /\ fin' = [kind |-> "pad", state |-> state, before |-> counter]
              /\ IF ~PackU32Ok(state.packet_counter)
                 THEN /\ ferr' = "struct.error"
                      /\ fpacket' = <<>>
                 ELSE LET body == PadPayload(state, timestamp) IN
                      IF Len(body) # PAD_PAYLOAD_LEN
                      THEN /\ ferr' = "AssertionError"
                           /\ fpacket' = <<>>
                      ELSE /\ ferr' = "none"
                           /\ fpacket' = body
    /\ fpc' = "pad"
    /\ UNCHANGED fparsed
    /\ UNCHANGED <<server_vars, caller_vars, reader_vars, stats_vars, llm_vars>>

\* zlib.crc32: a 32-bit value is two 16-bit limbs
CrcPoly == [hi |-> 60856, lo |-> 33568]

\* a xor b of two n-bit values
RECURSIVE Xor(_, _, _)
Xor(a, b, n) ==
    IF n = 0 THEN 0 ELSE ((a + b) % 2) + 2 * Xor(a \div 2, b \div 2, n - 1)

\* n times: shift right by one and, if a one fell out, xor the polynomial
RECURSIVE CrcShift(_, _)
CrcShift(c, n) ==
    IF n = 0 THEN c
    ELSE LET s == [hi |-> c.hi \div 2, lo |-> (c.lo \div 2) + (c.hi % 2) * (Limb \div 2)]
         IN  CrcShift(IF c.lo % 2 = 1
                      THEN [hi |-> Xor(s.hi, CrcPoly.hi, 16), lo |-> Xor(s.lo, CrcPoly.lo, 16)]
                      ELSE s, n - 1)

\* the table of the byte-wise algorithm
CrcTable(x) == CrcShift([hi |-> 0, lo |-> x], 8)

\* one byte: (c >> 8) xor table[(c xor b) & 0xFF]
CrcByte(c, b) ==
    LET t == CrcTable(Xor(c.lo % 256, b, 8))
    IN  [hi |-> Xor(c.hi \div 256, t.hi, 16),
         lo |-> Xor((c.lo \div 256) + (c.hi % 256) * 256, t.lo, 16)]

\* the bytes lo..hi of data taken into the register c
RECURSIVE CrcRange(_, _, _, _)
CrcRange(c, data, lo, hi) ==
    IF lo = hi THEN CrcByte(c, data[lo])
    ELSE LET mid == (lo + hi) \div 2
             left == CrcRange(c, data, lo, mid)
         IN  IF left.lo < Limb THEN CrcRange(left, data, mid + 1, hi) ELSE left

\* the register starts as 0xFFFFFFFF and is complemented at the end
compute_crc32(data) ==
    IF data = <<>> THEN [hi |-> 0, lo |-> 0]
    ELSE LET c == CrcRange([hi |-> Limb - 1, lo |-> Limb - 1], data, 1, Len(data))
         IN  [hi |-> Limb - 1 - c.hi, lo |-> Limb - 1 - c.lo]

\* the message left as it was, its checksum field still zero
pack_into_crc_Skip(message, crc) == message

\* struct.pack_into('<I', message, 8, crc)
pack_into_crc(message, crc) ==
    SubSeq(message, 1, 8) \o PackCounter(crc) \o SubSeq(message, 13, Len(message))

\* header + payload, the checksum of the whole patched in: the common tail
\* of _build_pad_data, _build_version_response and _build_portinfo_response
build_message(msg_type, body) ==
    LET message == build_header(msg_type, Len(body) + 4, SERVER_ID) \o body
    IN  pack_into_crc(message, compute_crc32(message))

\* the packets the server sends: _build_version_response,
\* _build_portinfo_response and _build_pad_data from a Controller State
build_response ==
    /\ fpc = "idle"
    /\ \E msg_type \in MsgTypes, bits \in {{}, {BUTTON_CIRCLE}, {BUTTON_UP, BUTTON_LEFT}},
          counter \in Counters, timestamp \in Timestamps :
          LET state == [DefaultState EXCEPT !.buttons = bits,
                                            !.packet_counter = CounterInc(counter)]
              body == IF msg_type = TYPE_VERSION THEN PackU16(PROTOCOL_VERSION)
                      ELSE IF msg_type = TYPE_PORTINFO THEN build_port_info
                      ELSE PadPayload(state, timestamp)
          IN  IF msg_type = TYPE_PADDATA /\ ~PackU32Ok(state.packet_counter)
              THEN /\ fin' = [kind |-> "response", msg_type |-> msg_type,
                              id |-> SERVER_ID, payload |-> <<>>]
                   /\ ferr' = "struct.error"
                   /\ fpacket' = <<>>
              ELSE /\ fin' = [kind |-> "response", msg_type |-> msg_type,
                              id |-> SERVER_ID, payload |-> body]
                   /\ ferr' = "none"
                   /\ fpacket' = build_message(msg_type, body)
    /\ fpc' = "response"
    /\ UNCHANGED fparsed
    /\ UNCHANGED <<server_vars, caller_vars, reader_vars, stats_vars, llm_vars>>

frame_return ==
    /\ fpc \in {"parsed", "pad", "response"}
    /\ fpc' = "idle"
    /\ fin' = NoFrameInput
    /\ fpacket' = <<>>
    /\ fparsed' = NoneInt
    /\ ferr' = "none"
    /\ UNCHANGED <<server_vars, caller_vars, reader_vars, stats_vars, llm_vars>>

NextFraming ==
    \/ encode_packet
    \/ client_request
    \/ decode_packet
    \/ build_pad_payload
    \/ build_response
    \/ frame_return

SpecFraming == InitReader /\ [][NextFraming]_vars

\* ================================================================ LLMClient
\* One call of chat or of chat_with_images: the loop over attempt with one
\* client.post per iteration. What the server answers is the environment's
\* choice at each post.
max_retries == 3
base_delay == 2

\* what a post meets: an answer with status 200, an answer whose status
\* makes raise_for_status raise HTTPStatusError, or an exception of
\* client.post that is no HTTPStatusError
Outcomes ==
    {[exc |-> "none", status |-> 200]}
    \cup {[exc |-> "HTTPStatusError", status |-> c] : c \in {401, 429, 500}}
    \cup {[exc |-> "ConnectError", status |-> NoneInt]}

\* data["choices"][0]["message"]["content"] of the answers with status 200
Contents ==
    {<<"B", "A", "T", "T", "L", "E">>,
     <<" ", "w", "o", "r", "l", "d", " ", "m", "a", "p", "\n">>,
     <<"I", " ", "a", "m", " ", "n", "o", "t", " ", "s", "u", "r", "e">>}

RECURSIVE Pow2(_)
Pow2(n) == IF n = 0 THEN 1 ELSE 2 * Pow2(n - 1)

\* delay = base_delay * (2 ** attempt)
Delay(k) == base_delay * Pow2(k)

\* what one iteration of the loop does with the outcome of its post:
\*   "return"  status 200, the content is returned
\*   "raise"   the exception leaves the method
\*   "sleep"   429 with retries left: time.sleep(delay), continue
\*   "next"    the except clause ends without raise: the next iteration
\*   "None"    the same in the last iteration: the loop ends, the method
\*             returns None
\* chat's except clause (lines 88-94) has no raise after its if,
\* chat_with_images' (lines 139-146) has one.
Iteration(fn, k, outcome) ==
    IF outcome.exc = "none" THEN "return"
    ELSE IF outcome.exc # "HTTPStatusError" THEN "raise"
    ELSE IF outcome.status = 429 /\ k < max_retries THEN "sleep"
    ELSE IF fn = "chat_with_images" THEN "raise"
    ELSE IF k < max_retries THEN "next"
    ELSE "None"

\* str.strip(), str.upper() and str.replace(" ", "_") on character sequences
StripChars == {" ", "\t", "\n", "\r"}

RECURSIVE LStrip(_)
LStrip(t) == IF t # <<>> /\ Head(t) \in StripChars THEN LStrip(Tail(t)) ELSE t

RECURSIVE RStrip(_)
RStrip(t) ==
    IF t # <<>> /\ t[Len(t)] \in StripChars THEN RStrip(SubSeq(t, 1, Len(t) - 1)) ELSE t

Strip(t) == RStrip(LStrip(t))

LowerChars == <<"a", "b", "c", "d", "e", "f", "g", "h", "i", "j", "k", "l", "m", "n", "o", "p", "q", "r", "s", "t", "u", "v", "w", "x", "y", "z">>
UpperChars == <<"A", "B", "C", "D", "E", "F", "G", "H", "I", "J", "K", "L", "M", "N", "O", "P", "Q", "R", "S", "T", "U", "V", "W", "X", "Y", "Z">>

Upper(c) ==
    IF \E i \in 1..Len(LowerChars) : LowerChars[i] = c
    THEN UpperChars[CHOOSE i \in 1..Len(LowerChars) : LowerChars[i] = c]
    ELSE c

\* phase_map.get(phase_str, GamePhase.UNKNOWN)
phase_map(phase_str) ==
         IF phase_str = <<"T", "I", "T", "L", "E", "_", "S", "C", "R", "E", "E", "N">> THEN "TITLE_SCREEN"
    ELSE IF phase_str = <<"B", "A", "T", "T", "L", "E">> THEN "BATTLE"
    ELSE IF phase_str = <<"B", "A", "T", "T", "L", "E", "_", "R", "E", "S", "U", "L", "T">> THEN "BATTLE_RESULT"
    ELSE IF phase_str = <<"C", "U", "T", "S", "C", "E", "N", "E">> THEN "CUTSCENE"
    ELSE IF phase_str = <<"P", "A", "R", "T", "Y", "_", "M", "E", "N", "U">> THEN "PARTY_MENU"
    ELSE IF phase_str = <<"S", "H", "O", "P">> THEN "SHOP"
    ELSE IF phase_str = <<"W", "O", "R", "L", "D", "_", "M", "A", "P">> THEN "WORLD_MAP"
        ELSE "UNKNOWN"

\* detect_phase from the return of self.llm.chat on: a string is normalised
\* and looked up; None has no strip (AttributeError) and an exception of chat
\* arrives as it is, both caught by 'except Exception'
detect_phase(ret) ==
    IF ret.kind = "str"
    THEN phase_map([i \in 1..Len(Strip(ret.content)) |->
                       LET c == Upper(Strip(ret.content)[i])
                       IN  IF c = " " THEN "_" ELSE c])
    ELSE "UNKNOWN"

NoRet == [kind |-> "none", content |-> <<>>]

LLMCall(fn, caller) ==
    /\ llm_pc' = "post"
    /\ llm_fn' = fn
    /\ llm_caller' = caller
    /\ attempt' = 0
    /\ llm_log' = <<>>
    /\ llm_slept' = <<>>
    /\ llm_ret' = NoRet
    /\ llm_phase' = "n/a"
    /\ UNCHANGED <<server_vars, caller_vars, reader_vars, stats_vars, framing_vars>>

chat ==
    /\ llm_pc = "idle"
    /\ \E caller \in {"direct", "detect_phase"} : LLMCall("chat", caller)

chat_with_images ==
    /\ llm_pc = "idle"
    /\ LLMCall("chat_with_images", "direct")

LLMFinish(ret) ==
    /\ llm_pc' = "ret"
    /\ llm_ret' = ret
    /\ llm_phase' = IF llm_caller = "detect_phase" THEN detect_phase(ret) ELSE "n/a"
    /\ UNCHANGED attempt

\* one iteration of the loop up to its return, raise, sleep or end
llm_post ==
    /\ llm_pc = "post"
    /\ \E outcome \in Outcomes, content \in Contents :
          LET what == Iteration(llm_fn, attempt, outcome) IN
          /\ llm_log' = Append(llm_log, outcome)
          /\ CASE what = "return" -> LLMFinish([kind |-> "str", content |-> content])
               [] what = "raise" ->
                    LLMFinish([kind |-> outcome.exc, content |-> <<>>])
               [] what = "None" -> LLMFinish([kind |-> "None", content |-> <<>>])
               [] what = "sleep" ->
                    /\ llm_pc' = "sleep"
                    /\ UNCHANGED <<attempt, llm_ret, llm_phase>>
               [] what = "next" ->
                    /\ attempt' = attempt + 1
                    /\ UNCHANGED <<llm_pc, llm_ret, llm_phase>>
    /\ UNCHANGED <<llm_fn, llm_caller, llm_slept>>
    /\ UNCHANGED <<server_vars, caller_vars, reader_vars, stats_vars, framing_vars>>

\* time.sleep(delay) has returned: continue
llm_sleep ==
    /\ llm_pc = "sleep"
    /\ llm_slept' = Append(llm_slept, Delay(attempt))
    /\ attempt' = attempt + 1
    /\ llm_pc' = "post"
    /\ UNCHANGED <<llm_fn, llm_caller, llm_log, llm_ret, llm_phase>>
    /\ UNCHANGED <<server_vars, caller_vars, reader_vars, stats_vars, framing_vars>>

llm_return ==
    /\ llm_pc = "ret"
    /\ llm_pc' = "idle"
    /\ llm_fn' = "none"
    /\ llm_caller' = "direct"
    /\ attempt' = 0
    /\ llm_log' = <<>>
    /\ llm_slept' = <<>>
    /\ llm_ret' = NoRet
    /\ llm_phase' = "n/a"
    /\ UNCHANGED <<server_vars, caller_vars, reader_vars, stats_vars, framing_vars>>

NextLLM ==
    \/ chat
    \/ chat_with_images
    \/ llm_post
    \/ llm_sleep
    \/ llm_return

SpecLLM == InitReader /\ [][NextLLM]_vars

\* ======================================================== CemuhookServer
\* the snapshot that a step of the loop has just built and handed to sendto
Snapshot(w) == w[1]

BuiltSnapshot == built' = built + 1 /\ wire' # <<>>

\* C1 (as stated): with the server started and a peer observed, a
\* press_button(b, d) with d of at least one tick (16 ms) has returned only
\* after a snapshot carrying b was sent during the hold.
C1_SnapshotSeenDuringHold ==
    (cpc = "ret" /\ cop = "press" /\ cdur >= LoopSleepMs /\ observed # "n/a")
        => observed = "seen"

\* C1 (amended): every snapshot the loop builds carries bit b exactly when the
\* caller is between press_button(b)'s set and its clear: snapshots built during
\* the hold carry b, snapshots built after the return have b clear.
C1_SnapshotFollowsHold ==
    [][BuiltSnapshot =>
          \A b \in Buttons :
             (b \in Snapshot(wire').buttons) <=> (cpc = "hold" /\ cbutton = b)]_vars

\* C1 witness: a press of at least one tick has returned, a snapshot sent during
\* the hold carried the bit and the latest snapshot, built after the release,
\* does not.
C1_Witness ==
    /\ cpc = "ret" /\ cop = "press" /\ cdur >= LoopSleepMs
    /\ observed = "seen"
    /\ wire # <<>>
    /\ Snapshot(wire).type = TYPE_PADDATA
    /\ cbutton \notin Snapshot(wire).buttons

\* C2 (as stated): once a peer address is recorded the running server keeps
\* it, every periodic step of the loop hands one pad-data snapshot for that
\* address to sendto, and the loop goes on doing so until stop() is called.
C2_StreamsUntilStop ==
    [][/\ (client_addr # None => client_addr' # None)
       /\ (thread = "alive" /\ lpc = "periodic" /\ lpc' = "sleep" /\ client_addr # None)
             => /\ Len(wire') = 1
                /\ Snapshot(wire').type = TYPE_PADDATA
                /\ Snapshot(wire').to = client_addr
       /\ (running /\ running' /\ thread = "alive" /\ client_addr # None)
             => thread' = "alive"]_vars

\* C3 (as stated): a datagram shorter than 20 bytes or with a magic other than
\* the client's is read without any effect: nothing is sent and the peer
\* address and the controller state stay as they were.
Malformed(d) == d.len < HEADER_LEN \/ d.magic # CLIENT_MAGIC

C3_MalformedHasNoEffect ==
    [][(lpc = "recv" /\ rx' # NoDatagram /\ Malformed(rx'))
          => /\ wire' = <<>>
             /\ client_addr' = client_addr
             /\ buttons' = buttons
             /\ packet_counter' = packet_counter]_vars

\* C4 (as stated): while another instance holds the address, this instance is
\* never bound to it: its construction fails and leaves no socket.
C4_NeverTwoBound == otherBound => sock = "none"

\* C5 (as stated): when stop() has returned, first call or not, started or not,
\* nothing was raised, running is false, the loop thread has ended and the
\* socket is closed.
C5_StoppedAfterStop ==
    (cpc = "ret" /\ cop = "stop")
        => /\ raised = "none"
           /\ ~running
           /\ thread # "alive"
           /\ sock = "closed"

\* C6 (as stated): stop() closes the socket only once the loop thread is no
\* longer inside an iteration that receives from or sends on it.
C6_CloseAfterLoopEnded ==
    [][(sock = "bound" /\ sock' = "closed")
          => ~(thread = "alive" /\ lpc \in {"recv", "periodic"})]_vars

\* C7: move_cursor(dx, dy) does |dx| pulses of right (dx > 0) or left, then
\* |dy| pulses of down (dy > 0) or up, each a set followed by the clear of the
\* same bit, and nothing else; move_cursor(0, 0) does no pulse.
Pulse(b) == <<<<"set", b>>, <<"clear", b>>>>

RECURSIVE Repeat(_, _)
Repeat(seq, n) == IF n = 0 THEN <<>> ELSE seq \o Repeat(seq, n - 1)

ExpectedPulses(dx, dy) ==
    Repeat(Pulse(IF dx > 0 THEN BUTTON_RIGHT ELSE BUTTON_LEFT), Abs(dx))
    \o Repeat(Pulse(IF dy > 0 THEN BUTTON_DOWN ELSE BUTTON_UP), Abs(dy))

IsPrefix(a, b) == Len(a) <= Len(b) /\ SubSeq(b, 1, Len(a)) = a

Returned == rpc = "ret"

\* an error reply of the stub: 'E' and two hex digits
IsErrorToken(s) == Len(s) = 3 /\ s[1] = "E" /\ s[2] \in HexDigits /\ s[3] \in HexDigits

AllHex(s) == \A i \in 1..Len(s) : s[i] \in HexDigits

\* C8: read_memory returns None when there is no connection, when the
\* response is an error code of the peer (any code), when it has fewer than
\* size*2 characters, and when its first size*2 characters are not valid hex.
C8_NoneOnEveryError ==
    Returned =>
        /\ rhow = "noconn" => result = NoneValue
        /\ (~payload.none /\ IsErrorToken(payload.str)) => result = NoneValue
        /\ (~payload.none /\ Len(payload.str) < rsize * 2) => result = NoneValue
        /\ (~payload.none /\ Len(payload.str) >= rsize * 2
              /\ ~AllHex(Slice(payload.str, 0, rsize * 2))) => result = NoneValue

\* C9: the parse in _send_packet yields None when the received bytes lack
\* '$' or '#', and the text between the first '$' and the last '#' otherwise.
C9_UnframedYieldsNone ==
    (Returned /\ rhow = "parsed") =>
        LET resp_str == DecodeAscii(response) IN
        IF Contains(resp_str, "$") /\ Contains(resp_str, "#")
        THEN payload = StrPayload(Slice(resp_str, IndexOf(resp_str, "$"),
                                                   RIndexOf(resp_str, "#") - 1))
        ELSE payload.none

\* C10: a read_memory call is blocked in its receive no longer than the
\* configured timeout: by then a framed response has arrived or the call has
\* returned None, having sent its command once.
C10_ReturnsWithinTimeout ==
    /\ rpc = "recv" => rtotal <= RecvTimeout
    /\ Len(rframes) <= 1

\* '$' and, after it, '#' were received
Framed(received) ==
    LET resp_str == DecodeAscii(received) IN
    /\ Contains(resp_str, "$")
    /\ Contains(resp_str, "#")
    /\ IndexOf(resp_str, "$") < RIndexOf(resp_str, "#")

\* byte i of the hex text s (two characters a byte), 0 beyond the w-th byte
HexByte(s, i, w) ==
    IF i <= w THEN 16 * HexVal(s[2 * i - 1]) + HexVal(s[2 * i]) ELSE 0

\* the sum of byte_i * 256^i over the first w bytes of s, as two limbs
LittleEndianOf(s, w) ==
    [hi |-> HexByte(s, 3, w) + 256 * HexByte(s, 4, w),
     lo |-> HexByte(s, 1, w) + 256 * HexByte(s, 2, w)]

\* C11: for a framed data response (not an error reply) whose first 2*size
\* characters are hex digits, read_memory returns the integer whose
\* little-endian bytes are the first size bytes of the response; "9600" read
\* with size 2 yields 150.
C11_LittleEndianDecode ==
    (Returned /\ rhow = "parsed" /\ Framed(response)
        /\ ~IsErrorToken(payload.str)
        /\ Len(payload.str) >= 2 * rsize
        /\ AllHex(Slice(payload.str, 0, 2 * rsize)))
    => /\ result = LittleEndianOf(payload.str, rsize)
       /\ (payload.str = <<"9", "6", "0", "0">> /\ rsize = 2)
             => result = [hi |-> 0, lo |-> 150]

C11_Witness ==
    /\ Returned /\ rhow = "parsed" /\ Framed(response)
    /\ rsize = 4
    /\ payload.str = <<"0", "a", "0", "b", "0", "c", "0", "d">>
    /\ result = [hi |-> 3340, lo |-> 2826]

\* ============================================ read_unit_stats and callers
\* the address the Address Map (for unit 1 also RAMZA_ADDRESSES) gives a field
AddressOfField(unit_id, f) ==
    IF f \in DOMAIN OFFSETS
    THEN UNIT_BASE_ADDR + (unit_id - 1) * UNIT_OFFSET + OFFSETS[f]
    ELSE RAMZA_ADDRESSES[f]

\* the fields read_unit_stats reads for a unit
FieldsOf(unit_id) ==
    IF unit_id = 1 THEN StatFields ELSE StatFields \cap DOMAIN OFFSETS

\* the value a field takes from a successful read of v
ExpectedField(f, v) ==
    IF f = "magic_ready" THEN v % 256 = 1
    ELSE IF f \in {"skill_poaching", "skill_xp_hp_move", "skill_fly"} THEN v % Limb # 0
    ELSE IF f \in {"brave", "faith", "speed", "move_count", "job_id", "ability2_id"}
         THEN v % 256
    ELSE v % Limb

CallsAt(calls, address) == {i \in 1..Len(calls) : calls[i].address = address}

SlotOfAddress(address) ==
    IF address \in {RAMZA_ADDRESSES[f] : f \in DOMAIN RAMZA_ADDRESSES} THEN 1
    ELSE ((address - UNIT_BASE_ADDR) \div UNIT_OFFSET) + 1

\* slots 1 to 5 were read in order, every command sent, one unit a slot
ReadAllSlots(state, calls) ==
    /\ state.connected
    /\ state.error = None
    /\ Len(state.units) = UNIT_COUNT
    /\ \A k \in 1..Len(state.units) : state.units[k].unit_id = k
    /\ {SlotOfAddress(calls[i].address) : i \in 1..Len(calls)} = 1..UNIT_COUNT
    /\ \A i \in 1..(Len(calls) - 1) :
          SlotOfAddress(calls[i].address) <= SlotOfAddress(calls[i + 1].address)
    /\ \A i \in 1..Len(calls) : calls[i].sent

\* C13: read_game_state called while not connected makes exactly one connect
\* attempt; if it fails the call returns connected = false with an error
\* message and no units, raising nothing and sending no read command; if it
\* succeeds, or the reader was connected, no (further) attempt is made and
\* slots 1 to 5 are read in order.
C13_OneConnectAttempt ==
    [][(sop = "none" /\ sop' = "read_game_state") =>
          /\ sraised' = "none"
          /\ IF ~connected
             THEN /\ sattempts' = 1
                  /\ IF ~connected'
                     THEN /\ ~gstate'.connected
                          /\ gstate'.error # None
                          /\ gstate'.units = <<>>
                          /\ scalls' = <<>>
                     ELSE ReadAllSlots(gstate', scalls')
             ELSE /\ sattempts' = 0
                  /\ connected'
                  /\ ReadAllSlots(gstate', scalls')]_vars

C13_Witness ==
    /\ sop = "read_game_state"
    /\ sattempts = 1
    /\ gstate.connected
    /\ Len(gstate.units) = UNIT_COUNT
    /\ Len(scalls) = MaxGameReads
    /\ senv.fails = {1, MaxUnitReads}
    /\ gstate.units[2].hp = 0
    /\ gstate.units[2].mp = 102

\* ------------------------------------------------------------ PowerManager
PowerOps == {"heal_unit", "restore_mp", "boost_brave", "boost_faith", "emergency_revive"}

\* C14: write_memory returns a boolean, and False when the write cannot be
\* performed, so a power-up whose write cannot be performed returns False
\* with power_ups_used unchanged and raises nothing.
C14_WriteFailsCleanly ==
    [][(sop = "none" /\ sop' \in PowerOps) =>
          /\ sraised' = "none"
          /\ pret' \in {"True", "False"}
          /\ pret' = "False" => power_ups_used' = power_ups_used]_vars

\* ===================================================== DSU packet framing
\* C15 (as stated): _parse_request applied to the packet _build_header and a
\* payload make returns the message type the packet was built with.
C15_RoundTrip ==
    (fpc = "parsed" /\ fin.kind = "packet") => fparsed = fin.msg_type

\* C15 (amended): _build_header writes the server magic and the message type
\* at offset 16; _parse_request returns None for every packet _build_header
\* makes, and the message type for the same layout with the client magic.
C15_DecoderWantsClientMagic ==
    fpc = "parsed" =>
        /\ Len(fpacket) = HEADER_LEN + Len(fin.payload)
        /\ UnpackU32(fpacket, 16) = fin.msg_type
        /\ fin.kind = "packet" =>
              UnpackU32(fpacket, 0) = SERVER_MAGIC /\ fparsed = NoneInt
        /\ fin.kind = "request" =>
              UnpackU32(fpacket, 0) = CLIENT_MAGIC /\ fparsed = fin.msg_type

C15_Witness ==
    /\ fpc = "parsed"
    /\ fin.kind = "packet"
    /\ fin.msg_type = TYPE_VERSION
    /\ fpacket = <<68, 83, 85, 83, 233, 3, 6, 0, 0, 0, 0, 0, 120, 86, 52, 18, 0, 0, 16, 0, 233, 3>>
    /\ fparsed = NoneInt

\* a reference payload: counter 1, buttons 0x2010, sticks centred, time 0
PadPayloadSample ==
    <<0, 2, 3, 1, 0, 0, 0, 0, 0, 0, 5, 1, 1, 0, 0, 0, 16, 32, 0, 0, 128, 128, 128, 128, 0, 0, 0, 0, 0, 0, 0, 0, 0, 0, 0, 0, 0, 0, 0, 0, 0, 0, 0, 0, 0, 0, 0, 0, 0, 0, 0, 0, 0, 0, 0, 0, 0, 0, 0, 0, 0, 0, 0, 0, 0, 0, 0, 0, 0, 0, 0, 0, 0, 0, 0, 0, 0, 0, 0, 0>>

\* ============================================================ send errors
\* C16 (as stated): a sendto that fails in a loop iteration, in the periodic
\* update or in the reply to a request, leaves the loop thread alive and the
\* loop goes on to the rest of its iteration.
C16_SendErrorsSwallowed ==
    [][(thread = "alive" /\ wire' # <<>> /\ ~Snapshot(wire').ok)
          => /\ thread' = "alive"
             /\ lpc' \in {"periodic", "sleep"}]_vars

\* ========================================================= frame checksum
\* a framed response whose two characters after the last '#' are not the
\* hex of the checksum of the text between the first '$' and that '#'
BadChecksum(received) ==
    /\ Framed(received)
    /\ LET resp_str == DecodeAscii(received)
           from == IndexOf(resp_str, "$")
           to == RIndexOf(resp_str, "#")
           data == Slice(resp_str, from, to - 1)
       IN  \/ Len(resp_str) < to + 2
           \/ resp_str[to + 1] \notin HexDigits
           \/ resp_str[to + 2] \notin HexDigits
           \/ 16 * HexVal(resp_str[to + 1]) + HexVal(resp_str[to + 2]) # checksum(data)

\* C17 (as stated): read_memory returns None for a framed response whose
\* checksum characters do not match the checksum of its payload; the payload
\* is never decoded into a value.
C17_BadChecksumDropped ==
    (Returned /\ rhow = "parsed" /\ BadChecksum(response)) => result = NoneValue

\* ========================================================== pad payload
\* C18 (as stated): the payload _build_pad_data makes is 80 bytes long for
\* every Controller State, and the build never aborts: neither the length
\* assertion nor a pack of a state value fails.
C18_PadPayloadIs80 ==
    fpc = "pad" => ferr = "none" /\ Len(fpacket) = PAD_PAYLOAD_LEN

\* the counter modulo 2^32
Wrap32(c) == [hi |-> c.hi % Limb, lo |-> c.lo]

\* C19 (as stated): every build carries the counter before it plus one,
\* reduced modulo 2^32: the build after counter 2^32 - 1 succeeds and
\* carries 0.
C19_CounterWraps ==
    fpc = "pad" =>
        /\ ferr = "none"
        /\ SubSeq(fpacket, 13, 16) = PackCounter(Wrap32(CounterInc(fin.before)))

\* ============================================================ Address Map
\* the calls that read a slot's fields: all but the two singleton reads
SlotCalls(calls) ==
    {i \in 1..Len(calls) :
        calls[i].address \notin {RAMZA_ADDRESSES[f] : f \in DOMAIN RAMZA_ADDRESSES}}

\* the slot the i-th call of a whole read_game_state is made for
CallSlot(i) ==
    IF i <= MaxUnitReads THEN 1 ELSE ((i - MaxUnitReads - 1) \div Len(ReadOrder)) + 2

\* the bytes of a call lie in the stride-sized region of slot u
InRegion(call, u) ==
    /\ UNIT_BASE_ADDR + (u - 1) * UNIT_OFFSET <= call.address
    /\ call.address + call.size <= UNIT_BASE_ADDR + u * UNIT_OFFSET

Disjoint(a, b) ==
    a.address + a.size <= b.address \/ b.address + b.size <= a.address

\* C20: every Address Map entry is base + i*stride + offset for slot i in
\* 0..4 (unit i + 1); the byte ranges read_unit_stats reads for a slot lie
\* inside that slot's stride-sized region, and the ranges read for two
\* different slots never overlap.
C20_AddressMap ==
    /\ DOMAIN UNIT_ADDRESSES = 1..UNIT_COUNT
    /\ \A u \in 1..UNIT_COUNT, f \in DOMAIN OFFSETS :
          UNIT_ADDRESSES[u][f] = UNIT_BASE_ADDR + (u - 1) * UNIT_OFFSET + OFFSETS[f]
    /\ (sop = "read_unit_stats" /\ sarg \in 1..UNIT_COUNT) =>
          /\ SlotCalls(scalls) # {}
          /\ \A i \in SlotCalls(scalls) : InRegion(scalls[i], sarg)
    /\ (sop = "read_game_state" /\ gstate.connected) =>
          /\ Len(scalls) = MaxGameReads
          /\ \A i \in SlotCalls(scalls) : InRegion(scalls[i], CallSlot(i))
          /\ \A i, j \in SlotCalls(scalls) :
                CallSlot(i) # CallSlot(j) => Disjoint(scalls[i], scalls[j])

\* a whole read_game_state: the last read of slot 3 (skill_fly, 2 bytes at
\* 0x010478EE) and the first of slot 4 (hp)
C20_Witness ==
    /\ sop = "read_game_state"
    /\ gstate.connected
    /\ Len(gstate.units) = UNIT_COUNT
    /\ CallSlot(MaxUnitReads + 2 * Len(ReadOrder)) = 3
    /\ scalls[MaxUnitReads + 2 * Len(ReadOrder)].address = 17070318
    /\ scalls[MaxUnitReads + 2 * Len(ReadOrder) + 1].address
          = UNIT_BASE_ADDR + 3 * UNIT_OFFSET + OFFSETS.hp

\* ========================================================== read command
LowerHex == {HexChars[i] : i \in 1..Len(HexChars)}

DecDigits == {HexChars[i] : i \in 1..10}

\* the number a digit text denotes in a base
RECURSIVE ValueOf(_, _)
ValueOf(s, base) ==
    IF s = <<>> THEN 0
    ELSE base * ValueOf(SubSeq(s, 1, Len(s) - 1), base) + HexVal(s[Len(s)])

\* p is '$' + 'm' + address in lowercase hex + ',' + size + '#' + cc, cc the
\* two lowercase hex digits of the sum of the command's characters mod 256
IsReadPacket(p, address, size) ==
    LET n == Len(p) IN
    /\ n >= 8
    /\ p[1] = "$" /\ p[2] = "m" /\ p[n - 2] = "#"
    /\ Contains(p, ",")
    /\ LET comma == IndexOf(p, ",")
           hex == SubSeq(p, 3, comma - 1)
           dec == SubSeq(p, comma + 1, n - 3)
           command == SubSeq(p, 2, n - 3)
       IN  /\ hex # <<>> /\ \A i \in 1..Len(hex) : hex[i] \in LowerHex
           /\ ValueOf(hex, 16) = address
           /\ dec # <<>> /\ \A i \in 1..Len(dec) : dec[i] \in DecDigits
           /\ ValueOf(dec, 10) = size
           /\ p[n - 1] \in LowerHex /\ p[n] \in LowerHex
           /\ 16 * HexVal(p[n - 1]) + HexVal(p[n]) = SumOrd(command) % 256

\* C21: a read_memory call on a connected reader hands exactly one packet to
\* sendall, '$' + 'm' + the address in lowercase hex + ',' + the size + '#' +
\* the two-hex-digit sum of the command's characters mod 256; a call on an
\* unconnected reader sends nothing.
C21_OneFramePerRead ==
    /\ (rpc \in {"recv", "ret"} /\ rhow # "noconn") => Len(rframes) = 1
    /\ (rpc = "ret" /\ rhow = "noconn") => rframes = <<>>
    /\ \A i \in 1..Len(rframes) :
          IsReadPacket(rframes[i].packet, rframes[i].address, rframes[i].size)

\* read_memory(0x01047480, 2) sends "$m1047480,2#33"
C21_Witness ==
    /\ rpc = "ret"
    /\ rhow = "parsed"
    /\ Len(rframes) = 1
    /\ rframes[1].address = UNIT_BASE_ADDR + OFFSETS.hp
    /\ rframes[1].size = 2
    /\ rframes[1].sent
    /\ rframes[1].packet
          = <<"$", "m", "1", "0", "4", "7", "4", "8", "0", ",", "2", "#", "3", "3">>

\* ======================================================= request dispatch
\* C22 (as stated): the handler step that receives a well-formed request of
\* type version, port-info or pad-data hands exactly one packet of that type
\* for the sender's address to sendto; for any other type it sends nothing.
C22_RequestAnswered ==
    [][(/\ thread = "alive" /\ lpc = "recv"
        /\ (lpc' = "periodic" \/ thread' = "crashed")
        /\ rx' # NoDatagram /\ ~Malformed(rx'))
          => IF rx'.type \in {TYPE_VERSION, TYPE_PORTINFO, TYPE_PADDATA}
             THEN /\ Len(wire') = 1
                  /\ Snapshot(wire').type = rx'.type
                  /\ Snapshot(wire').to = rx'.from
             ELSE wire' = <<>>]_vars

\* ========================================================== packet format
\* the packet with its four checksum bytes zeroed
CrcZeroed(packet) == SubSeq(packet, 1, 8) \o Zeros(4) \o SubSeq(packet, 13, Len(packet))

\* C23: every packet the server builds to send is a 20-byte header followed
\* by the payload: server magic, version 1001, length = payload length + 4,
\* the server id, the message type, and at offset 8 the CRC-32 of the whole
\* packet taken with the four checksum bytes zeroed.
C23_PacketFormat ==
    (fpc = "response" /\ ferr = "none") =>
        /\ Len(fpacket) = HEADER_LEN + Len(fin.payload)
        /\ SubSeq(fpacket, HEADER_LEN + 1, Len(fpacket)) = fin.payload
        /\ UnpackU32(fpacket, 0) = SERVER_MAGIC
        /\ fpacket[5] + 256 * fpacket[6] = PROTOCOL_VERSION
        /\ fpacket[7] + 256 * fpacket[8] = Len(fin.payload) + 4
        /\ UnpackU32(fpacket, 12) = SERVER_ID
        /\ UnpackU32(fpacket, 16) = fin.msg_type
        /\ SubSeq(fpacket, 9, 12) = PackCounter(compute_crc32(CrcZeroed(fpacket)))

\* the version response, its checksum 0x1b613152 as zlib.crc32 gives it
C23_Witness ==
    /\ fpc = "response"
    /\ fin.msg_type = TYPE_VERSION
    /\ fpacket = <<68, 83, 85, 83, 233, 3, 6, 0, 82, 49, 97, 27, 120, 86, 52, 18,
                   0, 0, 16, 0, 233, 3>>

\* ======================================================== socket release
\* C24 (as stated): when an exception raised while a request is handled or a
\* packet is built has ended the loop, the socket is closed: it is never left
\* bound with no loop serving it.
C24_SocketReleasedOnLoopExit ==
    thread = "crashed" => sock # "bound"

\* ============================================== Controller State and builds
\* C25 (as stated): a step of the loop that builds a pad-data packet leaves
\* every field of the Controller State as it was.
C25_BuildLeavesStateUnchanged ==
    [][built' # built => (buttons' = buttons /\ packet_counter' = packet_counter)]_vars

C27_NoButtonLeftHeld ==
    [][/\ (cpc # "hold" /\ cpc' = "hold") =>
             /\ buttons' \ {cbutton'} = buttons \ {cbutton'}
             /\ cbutton' \in buttons'
       /\ (cpc = "hold" /\ cpc' # "hold") =>
             /\ buttons' \ {cbutton} = buttons \ {cbutton}
             /\ cbutton \notin buttons'
       /\ cpc # "hold" => buttons = {}
       /\ cpc' # "hold" => buttons' = {}]_vars

\* C27 witness: a move_cursor of two pulses has completed, each pulse set
\* and cleared its bit, and the field is 0.
C27_Witness ==
    /\ cpc = "ret" /\ cop = "move"
    /\ Len(pulselog) = 4
    /\ pulselog[1][1] = "set" /\ pulselog[4][1] = "clear"
    /\ pulselog[1][2] # pulselog[3][2]
    /\ buttons = {}

\* ========================================================== late responses
\* C28 (as stated): the value a read_memory call returns is decoded from the
\* response to its own command, so a call that returns a value does not find
\* the late response to an earlier command for another address in the
\* stream.
C28_OwnResponseDecoded ==
    [][(rpc = "recv" /\ rpc' = "ret" /\ rhow' = "parsed" /\ result' # NoneValue)
          => (late = NoneInt \/ late = rframes[1].address)]_vars

\* ======================================================== dead connections
\* C29 (as stated): when sendall or recv raises, or recv reports that the
\* stub has closed the connection, the call leaves the connected flag False
\* (so that the next read_game_state makes its reconnect attempt).
C29_FailureClearsConnected ==
    [][(/\ rpc' = "ret" /\ rpc # "ret"
        /\ \/ rhow' \in {"senderr", "recverr"}
           \/ rhow' = "parsed" /\ peer = "closed")
          => ~connected']_vars

\* ============================================================ HTTP failures
C30_Delays == <<2, 4, 8>>

\* C30 (as stated): in chat and in chat_with_images alike, a post answered
\* 429 is retried, at most 3 times, after sleeping 2 s, 4 s and 8 s; any
\* other HTTP status error, and a 429 once the retries are used up, is raised
\* at once; the call ends with a response string or with an exception, never
\* with None.
C30_HttpFailureHandling ==
    [][/\ (llm_pc = "post" /\ llm_log' # llm_log) =>
             LET outcome == llm_log'[Len(llm_log')] IN
             /\ (outcome.status = 429 /\ Len(llm_slept) < 3) => llm_pc' = "sleep"
             /\ (/\ outcome.exc = "HTTPStatusError"
                 /\ ~(outcome.status = 429 /\ Len(llm_slept) < 3)) =>
                   llm_pc' = "ret" /\ llm_ret'.kind = "HTTPStatusError"
             /\ llm_pc' = "ret" => llm_ret'.kind # "None"
       /\ (llm_pc = "sleep" /\ llm_pc' = "post") =>
             /\ Len(llm_slept') <= 3
             /\ llm_slept' = SubSeq(C30_Delays, 1, Len(llm_slept'))]_vars

====
